---- MODULE Spec2Model ----
(***************************************************************************)
(* Model of the validators under scripts/: validate-frontmatter.py,        *)
(* validate-semantics.py, validate-idea.py and validate-events.py.  A run  *)
(* is a straight-line script: it collects the corpus, executes its checks  *)
(* in order, appends diagnostics to the global ERRORS list and exits in    *)
(* the Summary step.  An exception that no handler catches ends the run at *)
(* the check that raised it.  validate-idea prints its messages instead    *)
(* and stops at its first hard error; validate-events collects its issues  *)
(* and prints them at the end.  The text functions extract_code_blocks and *)
(* extract_prose of validate-semantics, and the checks that search the     *)
(* text of a file, are modelled on token sequences.                        *)
(*                                                                         *)
(* Documents are modelled by what the script decodes from them: a header   *)
(* is a record whose kind says what parse_frontmatter / yaml.safe_load     *)
(* yields (no delimiter, undecodable YAML, null, a non-mapping value, a    *)
(* mapping), and for a mapping which keys it has and their values.         *)
(***************************************************************************)
EXTENDS Integers, Sequences, FiniteSets, TLC

VARIABLES
  script,       \* which validator this run is
  pc,           \* position of the run in the script
  ERRORS,       \* the diagnostic list (ERRORS in both scripts)
  status,       \* "running", "exit0", "exit1", "exit2" or "exception"
  stackDisk,    \* .claude/stacks/**/*.md on disk: pair -> header
  skillDisk,    \* .claude/commands/*.md on disk: name -> header
  existing,     \* paths for which os.path.exists is true
  runSkill,     \* scripts/run-skill.sh
  makefile,     \* Makefile
  claudeMd,     \* CLAUDE.md
  ciYml,        \* .github/workflows/ci.yml
  gitleaks,     \* .gitleaks.toml
  fixtures,     \* tests/fixtures
  texts,        \* what the patterns of validate-semantics find in the prose
  stack_files,  \* sorted list of loaded stack files
  skill_files,  \* sorted list of skill files
  stack_data,   \* keys of the stack_data dict, in insertion order
  skill_data,   \* keys of the skill_data dict, in insertion order
  targets,      \* Makefile target table of validate-semantics Check 2
  has_payment,  \* the has_payment global of validate-semantics Check 3
  opened,       \* collaborator documents opened or listed so far
  ideaDoc,      \* idea/idea.yaml
  warnings,     \* the warnings flag of validate-idea
  printed,      \* the messages validate-idea has printed
  content,      \* the text given to extract_code_blocks and extract_prose
  lang_filter,  \* the lang_filter argument of extract_code_blocks
  blocks,       \* what the first call of extract_code_blocks returned
  blocks_again, \* what a second call on the same arguments returned
  prose,        \* what extract_prose returned
  bodies,       \* the text of the stack and skill files on disk
  stack_contents, \* the stack_contents dict, in insertion order
  skill_contents, \* the skill_contents dict, in insertion order
  eventsDoc,    \* EVENTS.yaml
  errors        \* the errors list of validate-events

vars == <<script, pc, ERRORS, status, stackDisk, skillDisk, existing, runSkill,
          makefile, claudeMd, ciYml, gitleaks, fixtures, texts, stack_files,
          skill_files, stack_data, skill_data, targets, has_payment, opened,
          ideaDoc, warnings, printed, content, lang_filter, blocks,
          blocks_again, prose, bodies, stack_contents, skill_contents,
          eventsDoc, errors>>

\* the arguments and results of the text extraction functions
textVars == <<content, lang_filter, blocks, blocks_again, prose>>

\* the state of a validate-idea run
ideaVars == <<ideaDoc, warnings, printed>>

corpusVars == <<stackDisk, skillDisk, existing, runSkill, makefile, claudeMd,
                ciYml, gitleaks, fixtures, texts, bodies, eventsDoc>>

\* the file contents that validate-semantics reads ahead of its checks
loadVars == <<stack_contents, skill_contents>>

\* the state of a validate-events run
eventVars == <<errors>>

(***************************************************************************)
(* Bounds of the model.                                                    *)
(***************************************************************************)
MaxAssumes == 2
MaxRefs == 2
MaxFixtures == 2
MaxName == 3
MaxText == 7
MaxOther == 4
MaxProse == 4
MaxEvents == 2
MaxBlocks == 2

(***************************************************************************)
(* Generic helpers.                                                        *)
(***************************************************************************)
Range(s) == {s[i] : i \in 1..Len(s)}

Last(s) == s[Len(s)]

SeqsUpTo(S, n) == UNION {[1..k -> S] : k \in 0..n}

\* number of positions of s holding x
Count(s, x) == Cardinality({i \in 1..Len(s) : s[i] = x})

\* sorted(): the elements of the finite set S in the order given by the
\* listing ord (a sequence that enumerates the universe in ascending order)
SortedBy(ord, S) == SelectSeq(ord, LAMBDA x : x \in S)

Diag(rule, file, arg) == [rule |-> rule, file |-> file, arg |-> arg]

\* result of running a loop body: the diagnostics so far and whether an
\* uncaught exception ended the run
Res(errs, crash) == [errs |-> errs, crash |-> crash]

(***************************************************************************)
(* The corpus universe.                                                    *)
(***************************************************************************)
\* stack files by category/value pair, in sorted() order of their paths
\* (uppercase sorts before lowercase)
StackOrder ==
  <<"analytics/TEMPLATE", "analytics/posthog", "payment/stripe", "testing/playwright">>
StackPairs == Range(StackOrder)

\* category/value strings and their two parts
PairParts ==
  [p \in StackPairs \cup {"auth/supabase", "database/supabase"} |->
     CASE p = "analytics/TEMPLATE" -> <<"analytics", "TEMPLATE">>
       [] p = "analytics/posthog" -> <<"analytics", "posthog">>
       [] p = "payment/stripe" -> <<"payment", "stripe">>
       [] p = "testing/playwright" -> <<"testing", "playwright">>
       [] p = "auth/supabase" -> <<"auth", "supabase">>
       [] p = "database/supabase" -> <<"database", "supabase">>]

\* pair.split("/")[0]
Category(p) == PairParts[p][1]

\* "TEMPLATE" in f
ContainsTEMPLATE(p) == p \in {"analytics/TEMPLATE"}

\* values written in the assumes lists of the corpora
DepNames == {"analytics/TEMPLATE", "analytics/posthog", "payment/stripe"}

SkillOrder == <<"bootstrap", "change", "iterate">>
SkillNames == Range(SkillOrder)

STACK_REQUIRED_KEYS ==
  <<"assumes", "packages", "files", "env", "ci_placeholders", "clean", "gitignore">>

SKILL_REQUIRED_KEYS ==
  <<"type", "reads", "stack_categories", "requires_approval", "references",
    "branch_prefix", "modifies_specs">>

\* reference paths and their components
PathParts ==
  [p \in {".claude/patterns/verify.md", ".claude/patterns/failure-patterns.md",
          "docs/verify.md"} |->
     CASE p = ".claude/patterns/verify.md" -> <<".claude", "patterns", "verify.md">>
       [] p = ".claude/patterns/failure-patterns.md" ->
            <<".claude", "patterns", "failure-patterns.md">>
       [] p = "docs/verify.md" -> <<"docs", "verify.md">>]
RefPaths == DOMAIN PathParts

\* os.path.basename
Basename(p) == Last(PathParts[p])

(***************************************************************************)
(* Headers.  kind: "absent" (no such file), "none" (no --- block, so       *)
(* parse_frontmatter returns None), "invalid" (yaml.safe_load raises       *)
(* YAMLError), "null" (the block decodes to None), "nonmap" (the block     *)
(* decodes to a list or a scalar that contains no key name), "map".        *)
(* A list-valued key is [null |-> TRUE] when the header writes it with no  *)
(* value, which YAML decodes to None.                                      *)
(***************************************************************************)
NullVal == [null |-> TRUE, val |-> <<>>]
Val(v) == [null |-> FALSE, val |-> v]

StackHdr(kind, missing, assumes, ph) ==
  [kind |-> kind, missing |-> missing, assumes |-> assumes, ph |-> ph]

SkillHdr(kind, missing, type, refs) ==
  [kind |-> kind, missing |-> missing, type |-> type, refs |-> refs]

AbsentStack == StackHdr("absent", {}, Val(<<>>), Val(<<>>))
AbsentSkill == SkillHdr("absent", {}, "", Val(<<>>))

\* data.get(key, default) on a mapping header
HasKey(h, key) == key \notin h.missing


\* os.path.isfile(f".claude/stacks/{dep}.md")
IsStackFile(dep) == dep \in DOMAIN stackDisk /\ stackDisk[dep].kind # "absent"

\* key in data, for the value yaml.safe_load returned (a mapping, or a list
\* or string that holds no key name)
KeyInData(h, key) == h.kind = "map" /\ HasKey(h, key)

\* MissingKeyDiags with a break after the first missing key
MissingKeyDiagsBreak(rule, sf, h, keys) ==
  LET miss == SelectSeq(keys, LAMBDA k : ~KeyInData(h, k))
  IN  IF miss = <<>> THEN <<>> ELSE <<Diag(rule, sf, miss[1])>>

\* the inner loop of Checks 1 and 3: one diagnostic per required key that
\* is not in data, in the order of the key list
MissingKeyDiags(rule, sf, h, keys) ==
  LET miss == SelectSeq(keys, LAMBDA k : ~KeyInData(h, k))
  IN  [i \in 1..Len(miss) |-> Diag(rule, sf, miss[i])]

(***************************************************************************)
(* validate-frontmatter.py                                                 *)
(***************************************************************************)
RECURSIVE Check1Loop(_, _, _)
Check1Loop(files, errs, data) ==
  IF files = <<>> THEN [errs |-> errs, crash |-> FALSE, data |-> data]
  ELSE LET sf == Head(files)
           h  == stackDisk[sf]
       IN  IF h.kind = "invalid"
           THEN [errs |-> errs, crash |-> TRUE, data |-> data]  \* yaml.YAMLError
           ELSE IF h.kind \in {"none", "null"}
           THEN Check1Loop(Tail(files),
                           Append(errs, Diag(1, sf, "missing frontmatter")), data)
           ELSE Check1Loop(Tail(files),
                           errs \o MissingKeyDiags(1, sf, h, STACK_REQUIRED_KEYS),
                           Append(data, sf))

\* AssumesLoop with a break after the first unresolved entry
AssumesLoopBreak(sf, deps, errs) ==
  LET miss == SelectSeq(deps, LAMBDA d : ~IsStackFile(d))
  IN  IF miss = <<>> THEN errs ELSE Append(errs, Diag(2, sf, miss[1]))

RECURSIVE AssumesLoop(_, _, _)
AssumesLoop(sf, deps, errs) ==
  IF deps = <<>> THEN errs
  ELSE AssumesLoop(sf, Tail(deps),
                   IF IsStackFile(Head(deps)) THEN errs
                   ELSE Append(errs, Diag(2, sf, Head(deps))))

RECURSIVE Check2Loop(_, _)
Check2Loop(keys, errs) ==
  IF keys = <<>> THEN Res(errs, FALSE)
  ELSE LET sf == Head(keys)
           h  == stackDisk[sf]
       IN  IF h.kind # "map" THEN Res(errs, TRUE)      \* no attribute 'get'
           ELSE LET a == IF HasKey(h, "assumes") THEN h.assumes ELSE Val(<<>>)
                IN  IF a.null THEN Res(errs, TRUE)     \* None is not iterable
                    ELSE Check2Loop(Tail(keys), AssumesLoop(sf, a.val, errs))

RECURSIVE Check3Loop(_, _, _)
Check3Loop(files, errs, data) ==
  IF files = <<>> THEN [errs |-> errs, crash |-> FALSE, data |-> data]
  ELSE LET sf == Head(files)
           h  == skillDisk[sf]
       IN  IF h.kind = "invalid"
           THEN [errs |-> errs, crash |-> TRUE, data |-> data]  \* yaml.YAMLError
           ELSE IF h.kind \in {"none", "null"}
           THEN Check3Loop(Tail(files),
                           Append(errs, Diag(3, sf, "missing frontmatter")), data)
           ELSE Check3Loop(Tail(files),
                           errs \o MissingKeyDiags(3, sf, h, SKILL_REQUIRED_KEYS),
                           Append(data, sf))

\* data.get("references", [])
References(h) == IF HasKey(h, "references") THEN h.refs ELSE Val(<<>>)

\* RefsLoop with the existence test on the basename instead of the path
RefsLoopBasename(sf, refs, errs) ==
  LET miss == SelectSeq(refs, LAMBDA r : ~\E e \in existing : Basename(e) = Basename(r))
  IN  errs \o [i \in 1..Len(miss) |-> Diag(4, sf, miss[i])]

RECURSIVE RefsLoop(_, _, _)
RefsLoop(sf, refs, errs) ==
  IF refs = <<>> THEN errs
  ELSE RefsLoop(sf, Tail(refs),
                IF Head(refs) \in existing THEN errs
                ELSE Append(errs, Diag(4, sf, Head(refs))))

RECURSIVE Check4Loop(_, _)
Check4Loop(keys, errs) ==
  IF keys = <<>> THEN Res(errs, FALSE)
  ELSE LET sf == Head(keys)
           h  == skillDisk[sf]
       IN  IF h.kind # "map" THEN Res(errs, TRUE)      \* no attribute 'get'
           ELSE IF References(h).null THEN Res(errs, TRUE)  \* None is not iterable
           ELSE Check4Loop(Tail(keys), RefsLoop(sf, References(h).val, errs))

\* data.get("type")
SkillType(h) == IF HasKey(h, "type") THEN h.type ELSE "None"

\* CodeWritingDiags with the second test as an elif of the first
CodeWritingDiagsElif(sf, refs) ==
  LET ref_basenames == {Basename(refs[i]) : i \in 1..Len(refs)}
  IN  IF "verify.md" \notin ref_basenames THEN <<Diag(5, sf, "verify.md")>>
      ELSE IF "failure-patterns.md" \notin ref_basenames
      THEN <<Diag(5, sf, "failure-patterns.md")>> ELSE <<>>

\* the two membership tests of Check 5 on one code-writing skill
CodeWritingDiags(sf, refs) ==
  LET ref_basenames == {Basename(refs[i]) : i \in 1..Len(refs)}
  IN  (IF "verify.md" \notin ref_basenames
       THEN <<Diag(5, sf, "verify.md")>> ELSE <<>>)
      \o
      (IF "failure-patterns.md" \notin ref_basenames
       THEN <<Diag(5, sf, "failure-patterns.md")>> ELSE <<>>)

RECURSIVE Check5Loop(_, _)
Check5Loop(keys, errs) ==
  IF keys = <<>> THEN Res(errs, FALSE)
  ELSE LET sf == Head(keys)
           h  == skillDisk[sf]
       IN  IF h.kind # "map" THEN Res(errs, TRUE)
           ELSE IF SkillType(h) # "code-writing" THEN Check5Loop(Tail(keys), errs)
           ELSE IF References(h).null THEN Res(errs, TRUE)
           ELSE Check5Loop(Tail(keys),
                           errs \o CodeWritingDiags(sf, References(h).val))


RECURSIVE Repeat(_, _)
Repeat(x, n) == IF n = 0 THEN <<>> ELSE <<x>> \o Repeat(x, n - 1)

\* sorted() of a list: ascending by ord, duplicates kept
RECURSIVE SortedList(_, _)
SortedList(ord, s) ==
  IF ord = <<>> THEN <<>>
  ELSE Repeat(Head(ord), Count(s, Head(ord))) \o SortedList(Tail(ord), s)

\* Check 6: analysis-only skills against ANALYSIS_ONLY_SKILLS
Check6Run(errs) ==
  IF \E i \in 1..Len(skill_data) : skillDisk[skill_data[i]].kind # "map"
  THEN Res(errs, TRUE)
  ELSE LET frontmatter_analysis ==
             SortedList(SkillOrder,
                        SelectSeq(skill_data,
                                  LAMBDA sf : SkillType(skillDisk[sf]) = "analysis-only"))
           shell_analysis ==
             IF runSkill.present /\ runSkill.hasLine
             THEN SortedList(SkillOrder, runSkill.names) ELSE <<>>
       IN  Res(IF frontmatter_analysis # shell_analysis
               THEN Append(errs, Diag(6, "run-skill.sh", "mismatch")) ELSE errs,
               FALSE)

\* Check 7: Makefile skill targets against .claude/commands/*.md
Check7Run(errs) ==
  IF ~makefile.present THEN Res(errs, FALSE)
  ELSE LET makefile_skills == SortedBy(SkillOrder, makefile.skills)
           command_skills  == skill_files
           noTarget  == SelectSeq(command_skills,
                                  LAMBDA sk : sk \notin Range(makefile_skills))
           noCommand == SelectSeq(makefile_skills,
                                  LAMBDA sk : sk \notin Range(command_skills))
       IN  Res(errs
               \o [i \in 1..Len(noTarget) |-> Diag(7, noTarget[i], "no Makefile target")]
               \o [i \in 1..Len(noCommand) |-> Diag(7, noCommand[i], "no command file")],
               FALSE)

\* Check8Run without the sorted() around the list read from CLAUDE.md
Check8RunUnsorted(errs) ==
  IF ~claudeMd.present THEN Res(errs, FALSE)
  ELSE IF ~claudeMd.match
  THEN Res(Append(errs, Diag(8, "CLAUDE.md", "pattern not found")), FALSE)
  ELSE Res(IF claudeMd.items # SortedList(SkillOrder, skill_files)
           THEN Append(errs, Diag(8, "CLAUDE.md", "mismatch")) ELSE errs,
           FALSE)

\* Check 8: the Rule 0 skill list of CLAUDE.md against the skill file names
Check8Run(errs) ==
  IF ~claudeMd.present THEN Res(errs, FALSE)
  ELSE IF ~claudeMd.match
  THEN Res(Append(errs, Diag(8, "CLAUDE.md", "pattern not found")), FALSE)
  ELSE LET claude_skills == SortedList(SkillOrder, claudeMd.items)
           actual_skills == SortedList(SkillOrder, skill_files)
       IN  Res(IF claude_skills # actual_skills
               THEN Append(errs, Diag(8, "CLAUDE.md", "mismatch")) ELSE errs,
               FALSE)

\* ci_placeholders: keys and values in sorted() order
PhKeyOrder == <<"NEXT_PUBLIC_POSTHOG_KEY", "STRIPE_SECRET_KEY">>
PhKeys == Range(PhKeyOrder)

\* a placeholder value: its YAML type and what str() makes of it
PhValue(t, s) == [t |-> t, s |-> s]
PhStrOrder == <<"123", "https://example.com", "phc_placeholder">>
PhValues == {PhValue("int", "123"), PhValue("str", "https://example.com"),
             PhValue("str", "phc_placeholder")}

\* str(val)
Str(v) == v.s

\* str_val.startswith("https://") or str_val.startswith("http://")
IsURL(str_val) == str_val \in {"https://example.com"}

\* data.get("ci_placeholders", {})
Placeholders(h) == IF HasKey(h, "ci_placeholders") THEN h.ph ELSE Val(<<>>)

\* some stack of stack_data makes the loops of Checks 9 and 10 raise
PlaceholderCrash ==
  \E i \in 1..Len(stack_data) :
     \/ stackDisk[stack_data[i]].kind # "map"
     \/ Placeholders(stackDisk[stack_data[i]]).null

\* Check 9: union of ci_placeholders keys appears in ci.yml
Check9Run(errs) ==
  IF ~ciYml.present THEN Res(errs, FALSE)
  ELSE IF PlaceholderCrash THEN Res(errs, TRUE)
  ELSE LET all_placeholder_keys ==
             UNION {DOMAIN Placeholders(stackDisk[stack_data[i]]).val :
                      i \in 1..Len(stack_data)}
           notFound == SelectSeq(SortedBy(PhKeyOrder, all_placeholder_keys),
                                 LAMBDA k : k \notin ciYml.keys)
       IN  Res(errs \o [i \in 1..Len(notFound) |-> Diag(9, "ci.yml", notFound[i])],
               FALSE)

\* Matched that takes a pattern that does not compile for a match
MatchedUncompiled(val) ==
  \E i \in 1..Len(gitleaks.patterns) : val \in gitleaks.patterns[i].matches

\* re.search(pattern, val) for some pattern of the allowlist; a pattern that
\* does not compile raises re.error, which the loop swallows
Matched(val) ==
  \E i \in 1..Len(gitleaks.patterns) :
     gitleaks.patterns[i].valid /\ val \in gitleaks.patterns[i].matches

\* Check 10: ci_placeholders values covered by the .gitleaks.toml allowlist
Check10Run(errs) ==
  IF ~gitleaks.present THEN Res(errs, FALSE)
  ELSE IF PlaceholderCrash THEN Res(errs, TRUE)
  ELSE LET all_placeholder_values ==
             {s \in Range(PhStrOrder) :
                /\ ~IsURL(s)
                /\ \E i \in 1..Len(stack_data) :
                     LET ph == Placeholders(stackDisk[stack_data[i]]).val
                     IN  \E k \in DOMAIN ph : Str(ph[k]) = s}
           unmatched == SelectSeq(SortedBy(PhStrOrder, all_placeholder_values),
                                  LAMBDA v : ~Matched(v))
       IN  Res(errs \o [i \in 1..Len(unmatched) |-> Diag(10, ".gitleaks.toml", unmatched[i])],
               FALSE)

\* SummaryStatus that fails the run only from the second diagnostic on
SummaryStatusOffByOne(errs) == IF Len(errs) > 1 THEN "exit1" ELSE "exit0"

\* sys.exit(1) if ERRORS else sys.exit(0)
SummaryStatus(errs) == IF errs # <<>> THEN "exit1" ELSE "exit0"

\* the run is at position p of script s and has not ended
At(s, p) == script = s /\ pc = p /\ status = "running"

\* the statement after a check: the next check, or the end of the run at
\* this check when it raised
Goto(r, next) ==
  /\ ERRORS' = r.errs
  /\ pc' = IF r.crash THEN pc ELSE next
  /\ status' = IF r.crash THEN "exception" ELSE status

\* sorted(glob(...)) of the stack files without the TEMPLATE ones
CollectStacks ==
  SelectSeq(StackOrder, LAMBDA p : IsStackFile(p) /\ ~ContainsTEMPLATE(p))

\* sorted(glob(".claude/commands/*.md"))
CollectSkills == SelectSeq(SkillOrder, LAMBDA n : skillDisk[n].kind # "absent")

FmCollect ==
  /\ At("frontmatter", "collect")
  /\ stack_files' = CollectStacks
  /\ skill_files' = CollectSkills
  /\ pc' = "check1"
  /\ UNCHANGED <<script, ERRORS, status, corpusVars, ideaVars, textVars, loadVars, eventVars, stack_data, skill_data,
                 targets, has_payment, opened>>

FmCheck1 ==
  /\ At("frontmatter", "check1")
  /\ LET r == Check1Loop(stack_files, ERRORS, <<>>)
     IN  Goto(r, "check2") /\ stack_data' = r.data
  /\ UNCHANGED <<script, corpusVars, ideaVars, textVars, loadVars, eventVars, stack_files, skill_files, skill_data,
                 targets, has_payment, opened>>

FmCheck2 ==
  /\ At("frontmatter", "check2")
  /\ Goto(Check2Loop(stack_data, ERRORS), "check3")
  /\ UNCHANGED <<script, corpusVars, ideaVars, textVars, loadVars, eventVars, stack_files, skill_files, stack_data,
                 skill_data, targets, has_payment, opened>>

FmCheck3 ==
  /\ At("frontmatter", "check3")
  /\ LET r == Check3Loop(skill_files, ERRORS, <<>>)
     IN  Goto(r, "check4") /\ skill_data' = r.data
  /\ UNCHANGED <<script, corpusVars, ideaVars, textVars, loadVars, eventVars, stack_files, skill_files, stack_data,
                 targets, has_payment, opened>>

FmCheck4 ==
  /\ At("frontmatter", "check4")
  /\ Goto(Check4Loop(skill_data, ERRORS), "check5")
  /\ UNCHANGED <<script, corpusVars, ideaVars, textVars, loadVars, eventVars, stack_files, skill_files, stack_data,
                 skill_data, targets, has_payment, opened>>

FmCheck5 ==
  /\ At("frontmatter", "check5")
  /\ Goto(Check5Loop(skill_data, ERRORS), "check6")
  /\ UNCHANGED <<script, corpusVars, ideaVars, textVars, loadVars, eventVars, stack_files, skill_files, stack_data,
                 skill_data, targets, has_payment, opened>>

\* the collaborator a guarded check opens, when it is there
Open(doc, name) == IF doc.present THEN opened \cup {name} ELSE opened

FmCheck6 ==
  /\ At("frontmatter", "check6")
  /\ Goto(Check6Run(ERRORS), "check7")
  /\ opened' = Open(runSkill, "run-skill.sh")
  /\ UNCHANGED <<script, corpusVars, ideaVars, textVars, loadVars, eventVars, stack_files, skill_files, stack_data,
                 skill_data, targets, has_payment>>

FmCheck7 ==
  /\ At("frontmatter", "check7")
  /\ Goto(Check7Run(ERRORS), "check8")
  /\ opened' = Open(makefile, "Makefile")
  /\ UNCHANGED <<script, corpusVars, ideaVars, textVars, loadVars, eventVars, stack_files, skill_files, stack_data,
                 skill_data, targets, has_payment>>

FmCheck8 ==
  /\ At("frontmatter", "check8")
  /\ Goto(Check8Run(ERRORS), "check9")
  /\ opened' = Open(claudeMd, "CLAUDE.md")
  /\ UNCHANGED <<script, corpusVars, ideaVars, textVars, loadVars, eventVars, stack_files, skill_files, stack_data,
                 skill_data, targets, has_payment>>

FmCheck9 ==
  /\ At("frontmatter", "check9")
  /\ Goto(Check9Run(ERRORS), "check10")
  /\ opened' = Open(ciYml, "ci.yml")
  /\ UNCHANGED <<script, corpusVars, ideaVars, textVars, loadVars, eventVars, stack_files, skill_files, stack_data,
                 skill_data, targets, has_payment>>

FmCheck10 ==
  /\ At("frontmatter", "check10")
  /\ Goto(Check10Run(ERRORS), "summary")
  /\ opened' = Open(gitleaks, ".gitleaks.toml")
  /\ UNCHANGED <<script, corpusVars, ideaVars, textVars, loadVars, eventVars, stack_files, skill_files, stack_data,
                 skill_data, targets, has_payment>>

FmSummary ==
  /\ At("frontmatter", "summary")
  /\ status' = SummaryStatus(ERRORS)
  /\ pc' = "done"
  /\ UNCHANGED <<script, ERRORS, corpusVars, ideaVars, textVars, loadVars, eventVars, stack_files, skill_files,
                 stack_data, skill_data, targets, has_payment, opened>>

NextFm ==
  \/ FmCollect \/ FmCheck1 \/ FmCheck2 \/ FmCheck3 \/ FmCheck4 \/ FmCheck5
  \/ FmCheck6 \/ FmCheck7 \/ FmCheck8 \/ FmCheck9 \/ FmCheck10 \/ FmSummary


(***************************************************************************)
(* Corpora of validate-frontmatter runs.  Every corpus is a consistent     *)
(* base corpus varied along one family of documents at a time.             *)
(***************************************************************************)
AllStackKeys == Range(STACK_REQUIRED_KEYS)
AllSkillKeys == Range(SKILL_REQUIRED_KEYS)

DefaultPh ==
  [k \in {"NEXT_PUBLIC_POSTHOG_KEY"} |-> PhValue("str", "phc_placeholder")]

ValidStack == StackHdr("map", {}, Val(<<>>), Val(DefaultPh))

VerifyRef == ".claude/patterns/verify.md"
FailureRef == ".claude/patterns/failure-patterns.md"

ValidSkill == SkillHdr("map", {}, "code-writing", Val(<<VerifyRef, FailureRef>>))

\* headers that are not a mapping
BrokenStackHdrs ==
  {StackHdr(k, AllStackKeys, Val(<<>>), Val(<<>>)) :
     k \in {"none", "invalid", "null", "nonmap"}}

BrokenSkillHdrs ==
  {SkillHdr(k, AllSkillKeys, "", Val(<<>>)) :
     k \in {"none", "invalid", "null", "nonmap"}}

AssumesValues == {NullVal} \cup {Val(a) : a \in SeqsUpTo(DepNames, MaxAssumes)}

RichStackHdrs ==
  {AbsentStack} \cup BrokenStackHdrs
  \cup {StackHdr("map", {}, a, Val(DefaultPh)) : a \in AssumesValues}
  \cup {StackHdr("map", m, Val(<<>>), Val(DefaultPh)) :
          m \in {{"env"}, {"assumes"}, AllStackKeys}}

RefsValues == {NullVal} \cup {Val(r) : r \in SeqsUpTo(RefPaths, MaxRefs)}

RichSkillHdrs ==
  {AbsentSkill} \cup BrokenSkillHdrs
  \cup {SkillHdr("map", {}, t, r) :
          t \in {"code-writing", "analysis-only"}, r \in RefsValues}
  \cup {SkillHdr("map", m, "code-writing", Val(<<VerifyRef, FailureRef>>)) :
          m \in {{"references"}, {"type"}, AllSkillKeys}}

PhMaps ==
  {<<>>, DefaultPh,
   [k \in {"STRIPE_SECRET_KEY"} |-> PhValue("int", "123")],
   [k \in PhKeys |-> IF k = "STRIPE_SECRET_KEY"
                     THEN PhValue("str", "https://example.com")
                     ELSE PhValue("str", "phc_placeholder")]}

PhStackHdrs ==
  {StackHdr("map", {}, Val(<<>>), ph) : ph \in {NullVal} \cup {Val(m) : m \in PhMaps}}
  \cup {StackHdr("map", {"ci_placeholders"}, Val(<<>>), Val(<<>>))}

Absent == [present |-> FALSE]

RunSkillFile(hasLine, names) ==
  [present |-> TRUE, hasLine |-> hasLine, names |-> names]

ClaudeFile(match, items) == [present |-> TRUE, match |-> match, items |-> items]

CiFile(keys) == [present |-> TRUE, keys |-> keys, e2eStripe |-> <<>>]

Pattern(valid, matches) == [valid |-> valid, matches |-> matches]
GitleaksFile(patterns) == [present |-> TRUE, patterns |-> patterns]

\* a Makefile: the skills its recipes pass to run-skill.sh, its targets in
\* file order, the list after "required =", and what Checks 4b and 20 find
Makefile(skills, tgts, required, clean, help) ==
  [present |-> TRUE, skills |-> skills, tgts |-> tgts, required |-> required,
   clean |-> clean, help |-> help]

\* a Makefile, as far as validate-frontmatter reads it
FmMakefile(skills) == Makefile(skills, <<>>, NullVal, <<>>, <<>>)

\* a run that does not call the text extraction functions on their own
NoText ==
  /\ content = <<>> /\ lang_filter = [none |-> TRUE, langs |-> {}]
  /\ blocks = <<>> /\ blocks_again = <<>> /\ prose = <<>>

\* a corpus whose stack and skill files have no text after their header, and
\* whose skill files declare no reads
NoBodies ==
  [stack |-> [p \in StackPairs |-> <<>>],
   skill |-> [n \in SkillNames |-> [reads |-> Val(<<>>), text |-> <<>>]]]

\* the contents dicts before the files are read
NotLoaded == stack_contents = <<>> /\ skill_contents = <<>>

\* a run that is not one of validate-events
NoEvents == eventsDoc = [kind |-> "absent"] /\ errors = <<>>

\* the targets variable before Check 2 of validate-semantics assigns it
NoTargets == [built |-> FALSE, table |-> <<>>]

\* the prose facts of a corpus that validate-frontmatter never reads
NoTexts == [findings |-> {}, always |-> NullVal, notBranches |-> <<>>,
            ciTemplate |-> NullVal]

\* the sorted names of the skill files of a corpus, and of its analysis-only ones
SkillsOf(sk) == SelectSeq(SkillOrder, LAMBDA n : sk[n].kind # "absent")
AnalysisOf(sk) ==
  SelectSeq(SkillOrder, LAMBDA n : sk[n].kind = "map" /\ SkillType(sk[n]) = "analysis-only")

\* the state before the first statement of validate-frontmatter
StartFm(st, sk) ==
  /\ script = "frontmatter" /\ pc = "collect"
  /\ ERRORS = <<>> /\ status = "running"
  /\ stackDisk = st /\ skillDisk = sk
  /\ existing = {VerifyRef, FailureRef}
  /\ fixtures = Absent /\ texts = NoTexts
  /\ stack_files = <<>> /\ skill_files = <<>>
  /\ stack_data = <<>> /\ skill_data = <<>>
  /\ targets = NoTargets /\ has_payment = "unset" /\ opened = {}
  /\ ideaDoc = [kind |-> "absent"] /\ warnings = "unset" /\ printed = <<>>
  /\ NoText /\ bodies = NoBodies /\ NotLoaded /\ NoEvents

\* collaborators that agree with the corpus
Consistent(sk) ==
  /\ runSkill = RunSkillFile(TRUE, AnalysisOf(sk))
  /\ makefile = FmMakefile(Range(SkillsOf(sk)))
  /\ claudeMd = ClaudeFile(TRUE, SkillsOf(sk))
  /\ ciYml = CiFile(PhKeys)
  /\ gitleaks = GitleaksFile(<<Pattern(TRUE, {"phc_placeholder", "123"})>>)

NoCollaborators ==
  /\ runSkill = Absent /\ makefile = Absent /\ claudeMd = Absent
  /\ ciYml = Absent /\ gitleaks = Absent

StacksWith(t, a, b) ==
  [p \in StackPairs |->
     IF p = "analytics/TEMPLATE" THEN t
     ELSE IF p = "analytics/posthog" THEN a
     ELSE IF p = "payment/stripe" THEN b ELSE AbsentStack]

AllSkills(h) == [n \in SkillNames |-> h]

\* family 1: the stack definitions vary
InitFmStacks ==
  \E t \in {AbsentStack, ValidStack}, a \in RichStackHdrs, b \in RichStackHdrs :
     /\ StartFm(StacksWith(t, a, b), AllSkills(ValidSkill))
     /\ Consistent(AllSkills(ValidSkill))

\* family 2: the skill definitions vary
InitFmSkills ==
  \E a \in RichSkillHdrs, b \in RichSkillHdrs :
     LET sk == [n \in SkillNames |->
                  IF n = "bootstrap" THEN a ELSE IF n = "change" THEN b
                  ELSE AbsentSkill]
     IN  /\ StartFm(StacksWith(AbsentStack, ValidStack, AbsentStack), sk)
         /\ Consistent(sk)

\* family 3: the skill set and the documents that list skills vary
InitFmSkillLists ==
  \E present \in SUBSET SkillNames, analysis \in {{}, {"iterate"}} :
     LET sk == [n \in SkillNames |->
                  IF n \notin present THEN AbsentSkill
                  ELSE IF n \in analysis
                  THEN SkillHdr("map", {}, "analysis-only", Val(<<>>))
                  ELSE ValidSkill]
     IN  /\ StartFm(StacksWith(AbsentStack, ValidStack, AbsentStack), sk)
         /\ runSkill \in {Absent, RunSkillFile(FALSE, <<>>),
                          RunSkillFile(TRUE, <<"iterate">>)}
         /\ makefile \in {Absent, FmMakefile(SkillNames), FmMakefile({"bootstrap"})}
         /\ claudeMd \in {Absent, ClaudeFile(FALSE, <<>>),
                          ClaudeFile(TRUE, <<"bootstrap", "change">>),
                          ClaudeFile(TRUE, <<"iterate", "change", "bootstrap">>),
                          ClaudeFile(TRUE, <<"bootstrap", "bootstrap", "change">>)}
         /\ \/ ciYml = Absent /\ gitleaks = Absent
            \/ /\ ciYml = CiFile(PhKeys)
               /\ gitleaks = GitleaksFile(<<Pattern(TRUE, {"phc_placeholder"})>>)

\* family 4: the placeholders and the documents that cover them vary
InitFmPlaceholders ==
  \E a \in PhStackHdrs, b \in PhStackHdrs \cup {AbsentStack} :
     /\ StartFm(StacksWith(AbsentStack, a, b), AllSkills(ValidSkill))
     /\ runSkill = RunSkillFile(TRUE, <<>>)
     /\ makefile \in {Absent, FmMakefile(SkillNames)}
     /\ claudeMd = ClaudeFile(TRUE, SkillOrder)
     /\ ciYml \in {Absent, CiFile({}), CiFile({"STRIPE_SECRET_KEY"}), CiFile(PhKeys)}
     /\ gitleaks \in {Absent, GitleaksFile(<<>>),
                      GitleaksFile(<<Pattern(FALSE, {"123", "phc_placeholder"}),
                                     Pattern(TRUE, {"phc_placeholder"})>>),
                      GitleaksFile(<<Pattern(TRUE, {"https://example.com"}),
                                     Pattern(TRUE, {"123"})>>)}

\* family 5: small defects in stacks and skills at once
InitFmEndToEnd ==
  \E t \in {AbsentStack, ValidStack},
     a \in {AbsentStack, ValidStack, StackHdr("map", {"env"}, Val(<<>>), Val(DefaultPh))},
     b \in {AbsentStack, ValidStack, StackHdr("map", {"env"}, Val(<<>>), Val(DefaultPh))},
     sk \in [SkillNames ->
               {AbsentSkill, ValidSkill,
                SkillHdr("map", {}, "code-writing", Val(<<FailureRef, "docs/verify.md">>))}] :
     /\ StartFm(StacksWith(t, a, b), sk)
     /\ Consistent(sk) \/ NoCollaborators

InitFm ==
  \/ InitFmStacks \/ InitFmSkills \/ InitFmSkillLists \/ InitFmPlaceholders
  \/ InitFmEndToEnd

SpecFm == InitFm /\ [][NextFm]_vars


(***************************************************************************)
(* validate-semantics.py: fixtures.                                        *)
(* A fixture file is "invalid" (yaml.safe_load raises YAMLError), "nonmap" *)
(* (it decodes to something that is not a dict) or "map".  keys are the    *)
(* top-level keys it has.  A value that should be a mapping has a shape:   *)
(* "map", or "nonmap" for null, a list or a string.                        *)
(***************************************************************************)
FixtureNames == <<"tests/fixtures/a.yaml", "tests/fixtures/b.yaml",
                  "tests/fixtures/c.yaml", "tests/fixtures/d.yaml">>

\* idea.pages: a list of entries with these names, or a non-empty string
Pages(shape, names) == [shape |-> shape, names |-> names]

\* idea.stack: a mapping category -> value, or a non-empty string
StackVal(shape, map) == [shape |-> shape, map |-> map]

\* names, as the sequences of their characters: "foo-1" and "Foo_1"
GoodName == <<"f", "o", "o", "-", "1">>
BadName == <<"F", "o", "o", "_", "1">>

\* idea: name is idea.name ("" when the key is absent), empty is the set of
\* the other required fields that are missing or empty
Idea(shape, name, empty, pages, stack) ==
  [shape |-> shape, name |-> name, empty |-> empty, pages |-> pages,
   stack |-> stack]

Assertions(shape, payment_required, skippable, min_pages) ==
  [shape |-> shape, payment_events_required |-> payment_required,
   skippable_events |-> skippable, min_pages |-> min_pages]

\* events: whether events.payment_funnel is a non-empty list
Events(shape, payment_funnel) == [shape |-> shape, payment_funnel |-> payment_funnel]

Fixture(kind, keys, idea, assertions, events) ==
  [kind |-> kind, keys |-> keys, idea |-> idea, assertions |-> assertions,
   events |-> events]

REQUIRED_IDEA_FIELDS ==
  <<"name", "title", "owner", "problem", "solution", "target_user",
    "distribution", "pages", "features", "primary_metric", "target_value",
    "measurement_window", "stack">>

\* fixture.get("idea", {}) and the like: an absent key reads as {}
EmptyIdea ==
  Idea("map", <<>>, Range(REQUIRED_IDEA_FIELDS), Pages("list", <<>>),
       StackVal("map", <<>>))
EmptyAssertions == Assertions("map", FALSE, Val(<<>>), NullVal)
EmptyEvents == Events("map", FALSE)

IdeaOf(fx) == IF "idea" \in fx.keys THEN fx.idea ELSE EmptyIdea
AssertionsOf(fx) == IF "assertions" \in fx.keys THEN fx.assertions ELSE EmptyAssertions
EventsOf(fx) == IF "events" \in fx.keys THEN fx.events ELSE EmptyEvents

\* [a-z] and [a-z0-9-], as far as the characters of the model go
LowerChars == {"a", "f", "o"}
SlugChars == LowerChars \cup {"1", "-"}

\* re.fullmatch(r"[a-z][a-z0-9-]*", s)
FullMatchSlug(s) ==
  /\ Len(s) >= 1
  /\ s[1] \in LowerChars
  /\ \A i \in 2..Len(s) : s[i] \in SlugChars

\* re.match(r"^[a-z][a-z0-9-]*$", s): $ matches at the end of the string and
\* before a newline that ends the string
ReMatchSlug(s) ==
  \/ FullMatchSlug(s)
  \/ Len(s) >= 1 /\ s[Len(s)] = "\n" /\ FullMatchSlug(SubSeq(s, 1, Len(s) - 1))

\* not idea.get(field)
FieldFalsy(idea, field) ==
  CASE field = "name" -> idea.name = <<>>
    [] field = "pages" -> idea.pages.shape = "list" /\ idea.pages.names = <<>>
    [] field = "stack" -> idea.stack.shape = "map" /\ DOMAIN idea.stack.map = {}
    [] OTHER -> field \in idea.empty

\* any(isinstance(p, dict) and p.get("name") == n for p in pages)
HasPage(pages, n) == \E i \in 1..Len(pages.names) : pages.names[i] = n

\* the diagnostics of Check 3 about the idea of one fixture (lines 268-288)
IdeaDiags(ff, idea) ==
  LET falsy == SelectSeq(REQUIRED_IDEA_FIELDS, LAMBDA f : FieldFalsy(idea, f))
  IN  (IF ~ReMatchSlug(idea.name) THEN <<Diag(3, ff, "idea.name")>> ELSE <<>>)
      \o [i \in 1..Len(falsy) |-> Diag(3, ff, falsy[i])]
      \o (IF idea.pages.shape = "list" /\ ~HasPage(idea.pages, "landing")
          THEN <<Diag(3, ff, "landing")>> ELSE <<>>)

\* HasPayment that takes any stack mapping for one with a payment entry
HasPaymentAnyMapping(idea) == idea.stack.shape = "map"

\* "payment" in stack if isinstance(stack, dict) else False
HasPayment(idea) == idea.stack.shape = "map" /\ "payment" \in DOMAIN idea.stack.map

\* the value of a Python bool variable, which is "unset" before its first
\* assignment
PyBool(b) == IF b THEN "True" ELSE "False"

\* the assertions block of Check 3 (lines 291-325); it assigns has_payment
\* and raises when skippable_events is null and must be searched
AssertionDiags(ff, idea, a) ==
  LET hp == HasPayment(idea)
      has_signup == idea.pages.shape = "list" /\ HasPage(idea.pages, "signup")
      pay == IF a.payment_events_required /\ ~hp
             THEN <<Diag(3, ff, "payment_events_required")>> ELSE <<>>
      evs == SelectSeq(<<"signup_start", "signup_complete">>,
                       LAMBDA ev : ev \notin Range(a.skippable_events.val))
      skip == IF has_signup THEN <<>>
              ELSE [i \in 1..Len(evs) |-> Diag(3, ff, evs[i])]
      minp == IF ~a.min_pages.null /\ idea.pages.shape = "list"
                 /\ Len(idea.pages.names) < a.min_pages.val
              THEN <<Diag(3, ff, "min_pages")>> ELSE <<>>
  IN  IF ~has_signup /\ a.skippable_events.null
      THEN [errs |-> pay, crash |-> TRUE, hp |-> PyBool(hp)]  \* None is not iterable
      ELSE [errs |-> pay \o skip \o minp, crash |-> FALSE, hp |-> PyBool(hp)]

\* the events block of Check 3 (lines 328-337); hp is the has_payment global,
\* "unset" while no fixture has assigned it
EventDiags(ff, ev, hp) ==
  IF ev.shape # "map" THEN Res(<<>>, FALSE)
  ELSE IF hp = "unset" THEN Res(<<>>, TRUE)            \* NameError
  ELSE IF hp = "False" /\ ev.payment_funnel
  THEN Res(<<Diag(3, ff, "payment_funnel")>>, FALSE)
  ELSE Res(<<>>, FALSE)

\* one iteration of the fixture loop of Check 3
Check3One(ff, fx, errs, hp) ==
  IF fx.kind = "invalid"
  THEN [errs |-> Append(errs, Diag(3, ff, "invalid YAML")), crash |-> FALSE, hp |-> hp]
  ELSE IF fx.kind # "map"
  THEN [errs |-> Append(errs, Diag(3, ff, "not a mapping")), crash |-> FALSE, hp |-> hp]
  ELSE
    LET keys == SelectSeq(<<"idea", "events", "assertions">>, LAMBDA k : k \notin fx.keys)
        e1 == errs \o [i \in 1..Len(keys) |-> Diag(3, ff, keys[i])]
        idea == IdeaOf(fx)
    IN  IF idea.shape # "map"
        THEN [errs |-> Append(e1, Diag(3, ff, "idea not a mapping")),
              crash |-> FALSE, hp |-> hp]
        ELSE
          LET e2 == e1 \o IdeaDiags(ff, idea)
              a  == AssertionsOf(fx)
              ra == IF a.shape = "map" THEN AssertionDiags(ff, idea, a)
                    ELSE [errs |-> <<>>, crash |-> FALSE, hp |-> hp]
              re == EventDiags(ff, EventsOf(fx), ra.hp)
          IN  IF ra.crash THEN [errs |-> e2 \o ra.errs, crash |-> TRUE, hp |-> ra.hp]
              ELSE [errs |-> e2 \o ra.errs \o re.errs, crash |-> re.crash, hp |-> ra.hp]

\* Check3FixtureLoop with break instead of continue after a YAML error
RECURSIVE Check3FixtureLoopBreak(_, _, _)
Check3FixtureLoopBreak(i, errs, hp) ==
  IF i > Len(fixtures.files) THEN [errs |-> errs, crash |-> FALSE, hp |-> hp]
  ELSE LET r == Check3One(FixtureNames[i], fixtures.files[i], errs, hp)
       IN  IF r.crash \/ fixtures.files[i].kind = "invalid" THEN r
           ELSE Check3FixtureLoopBreak(i + 1, r.errs, r.hp)

RECURSIVE Check3FixtureLoop(_, _, _)
Check3FixtureLoop(i, errs, hp) ==
  IF i > Len(fixtures.files) THEN [errs |-> errs, crash |-> FALSE, hp |-> hp]
  ELSE LET r == Check3One(FixtureNames[i], fixtures.files[i], errs, hp)
       IN  IF r.crash THEN r ELSE Check3FixtureLoop(i + 1, r.errs, r.hp)

\* Check 3: Fixture Validation
SemCheck3Run(errs, hp) ==
  IF ~fixtures.present THEN [errs |-> errs, crash |-> FALSE, hp |-> hp]
  ELSE Check3FixtureLoop(1,
         IF fixtures.files = <<>>
         THEN Append(errs, Diag(3, "tests/fixtures", "no fixture files found"))
         ELSE errs,
         hp)

\* the fixture loading loop of Checks 7, 13 and 19: the idea.stack mappings of
\* the fixtures that load, with their files; it raises on an idea that is not
\* a mapping
RECURSIVE FixtureStacks(_, _)
FixtureStacks(i, acc) ==
  IF i > Len(fixtures.files) THEN [stacks |-> acc, crash |-> FALSE]
  ELSE LET fx == fixtures.files[i]
       IN  IF fx.kind # "map" THEN FixtureStacks(i + 1, acc)
           ELSE IF IdeaOf(fx).shape # "map"
           THEN [stacks |-> acc, crash |-> TRUE]       \* no attribute 'get'
           ELSE IF IdeaOf(fx).stack.shape # "map" THEN FixtureStacks(i + 1, acc)
           ELSE FixtureStacks(i + 1,
                  Append(acc, [ff |-> FixtureNames[i], stack |-> IdeaOf(fx).stack.map]))


(***************************************************************************)
(* validate-semantics.py: the checks.                                      *)
(***************************************************************************)
\* a Makefile target: its name and what the patterns find in its recipe
Target(name, npm, guard, passed, cond, providers, hosting) ==
  [name |-> name, npm |-> npm, guard |-> guard, passed |-> passed, cond |-> cond,
   providers |-> providers, hosting |-> hosting]

\* what the patterns find in the empty recipe ""
EmptyRecipe == Target("", FALSE, FALSE, FALSE, FALSE, {}, FALSE)

EXEMPT_TARGETS == {"validate", "clean", "clean-all", "help", "test-e2e"}

\* the targets dict: for every name the recipe of its last definition
TargetTable(tgts) ==
  [n \in {tgts[i].name : i \in 1..Len(tgts)} |->
     tgts[CHOOSE i \in 1..Len(tgts) :
            /\ tgts[i].name = n
            /\ \A j \in 1..Len(tgts) : tgts[j].name = n => j <= i]]

\* the names of tgts in the order of their first definition (dict order)
RECURSIVE FirstNames(_, _)
FirstNames(tgts, seen) ==
  IF tgts = <<>> THEN <<>>
  ELSE IF Head(tgts).name \in seen THEN FirstNames(Tail(tgts), seen)
  ELSE <<Head(tgts).name>> \o FirstNames(Tail(tgts), seen \cup {Head(tgts).name})

\* Check 2: Makefile Target Guards
SemCheck2Run(errs) ==
  IF ~makefile.present THEN errs
  ELSE LET table == TargetTable(makefile.tgts)
           bad == SelectSeq(FirstNames(makefile.tgts, {}),
                            LAMBDA n : /\ n \notin EXEMPT_TARGETS
                                       /\ table[n].npm /\ ~table[n].guard)
       IN  errs \o [i \in 1..Len(bad) |-> Diag(2, "Makefile", bad[i])]

\* if not fm, for the value parse_frontmatter returned: None, or the empty
\* mapping, which is the mapping that has none of the keys
FmFalsy(h) == h.kind \in {"none", "null"} \/ (h.kind = "map" /\ h.missing = AllStackKeys)

\* the first parse_frontmatter loop over the stack files (Check 4a): it
\* raises on a header that is not YAML or not a mapping
StackParseCrash ==
  \E i \in 1..Len(stack_files) : stackDisk[stack_files[i]].kind \in {"invalid", "nonmap"}

\* Check 4: Frontmatter <-> Content Sync; the findings of 4a are those of the
\* prose patterns, the findings of 4b those of the Makefile clean recipe
SemCheck4Run(errs) ==
  IF StackParseCrash THEN Res(errs, TRUE)
  ELSE Res(errs
           \o (IF 4 \in texts.findings THEN <<Diag(4, "stack", "finding")>> ELSE <<>>)
           \o (IF makefile.present
               THEN [i \in 1..Len(makefile.clean) |-> Diag(4, "Makefile", makefile.clean[i])]
               ELSE <<>>),
           FALSE)

\* sorted() order of the field names Check 6 compares
FieldOrder ==
  <<"budget", "distribution", "features", "measurement_window", "name", "owner",
    "pages", "primary_metric", "problem", "solution", "stack", "target_user",
    "target_value", "title">>

\* Check 6: Required Fields Consistency
SemCheck6Run(errs) ==
  IF ~makefile.present \/ makefile.required.null THEN errs
  ELSE LET mk_fields_set == makefile.required.val
           sem_fields_set == Range(REQUIRED_IDEA_FIELDS)
           extra == SortedBy(FieldOrder, mk_fields_set \ sem_fields_set)
           lack  == SortedBy(FieldOrder, sem_fields_set \ mk_fields_set)
       IN  errs \o [i \in 1..Len(extra) |-> Diag(6, "Makefile", extra[i])]
                \o [i \in 1..Len(lack) |-> Diag(6, "validate-semantics.py", lack[i])]

\* Covers that compares the category only
CoversCategory(stack, pair) == PairParts[pair][1] \in DOMAIN stack

\* f"{k}/{v}" for k, v in stack.items() contains pair
Covers(stack, pair) ==
  /\ PairParts[pair][1] \in DOMAIN stack
  /\ stack[PairParts[pair][1]] = PairParts[pair][2]

\* the mandatory-category loop of Check 7 (lines 535-542)
RECURSIVE MandatoryDiags(_, _)
MandatoryDiags(cov, cats) ==
  IF cov = <<>> THEN <<>>
  ELSE LET lack == SelectSeq(cats, LAMBDA c : c \notin DOMAIN Head(cov).stack)
       IN  [i \in 1..Len(lack) |-> Diag(7, Head(cov).ff, lack[i])]
           \o MandatoryDiags(Tail(cov), cats)

\* Check 7: Fixture Stack Coverage
SemCheck7Run(errs) ==
  IF ~fixtures.present THEN Res(errs, FALSE)
  ELSE LET ld == FixtureStacks(1, <<>>)
           uncovered ==
             SelectSeq(stack_files,
                       LAMBDA pair : ~\E i \in 1..Len(ld.stacks) :
                                         Covers(ld.stacks[i].stack, pair))
           mandatory ==
             IF skillDisk["bootstrap"].kind # "absent" /\ ~texts.always.null
             THEN MandatoryDiags(ld.stacks, texts.always.val) ELSE <<>>
       IN  IF ld.crash THEN Res(errs, TRUE)
           ELSE Res(errs
                    \o [i \in 1..Len(uncovered) |-> Diag(7, uncovered[i], "no fixture coverage")]
                    \o mandatory,
                    FALSE)

\* SemCheck10Guard left out: the check runs whether or not the Makefile exists
SemCheck10Unguarded == TRUE

\* Check 10: Validate Warning Differentiation; it reads the targets table
\* that Check 2 built
SemCheck10Guard == makefile.present

SemCheck10Run(errs) ==
  IF ~SemCheck10Guard THEN Res(errs, FALSE)
  ELSE IF ~targets.built THEN Res(errs, TRUE)          \* NameError
  ELSE LET validate_recipe ==
             IF "validate" \in DOMAIN targets.table THEN targets.table["validate"]
             ELSE EmptyRecipe
       IN  Res(IF validate_recipe.passed /\ ~validate_recipe.cond
               THEN Append(errs, Diag(10, "Makefile", "validate"))
               ELSE errs,
               FALSE)

\* HasNotBranch over all fixtures, whether they use the category or not
HasNotBranchAnyFixture(stacks, category, br) ==
  \E i \in 1..Len(stacks) :
     LET fs == stacks[i].stack
     IN  br[1] \notin DOMAIN fs \/ fs[br[1]] # br[2]

\* one "when stack.X is NOT Y" branch of a stack file of the given category
\* is exercised by some fixture that uses the category
HasNotBranch(stacks, category, br) ==
  \E i \in 1..Len(stacks) :
     LET fs == stacks[i].stack
     IN  /\ category \in DOMAIN fs
         /\ (br[1] \notin DOMAIN fs \/ fs[br[1]] # br[2])

\* the NOT branches that texts.notBranches records for a stack file
NotBranches(sf) ==
  IF sf \in DOMAIN texts.notBranches THEN texts.notBranches[sf] ELSE <<>>

RECURSIVE Check13Loop(_, _, _)
Check13Loop(files, stacks, errs) ==
  IF files = <<>> THEN errs
  ELSE LET sf == Head(files)
           miss == SelectSeq(NotBranches(sf),
                             LAMBDA br : ~HasNotBranch(stacks, Category(sf), br))
       IN  Check13Loop(Tail(files), stacks,
                       errs \o [i \in 1..Len(miss) |-> Diag(13, sf, miss[i][1])])

\* Check 13: Fixture Coverage for Stack File Branching Conditions
SemCheck13Run(errs) ==
  IF ~fixtures.present THEN Res(errs, FALSE)
  ELSE LET ld == FixtureStacks(1, <<>>)
       IN  IF ld.crash THEN Res(errs, TRUE)
           ELSE Res(Check13Loop(stack_files, ld.stacks, errs), FALSE)

\* Check 15: Makefile Deploy Hosting Guard
SemCheck15Run(errs) ==
  IF ~makefile.present THEN Res(errs, FALSE)
  ELSE IF ~targets.built THEN Res(errs, TRUE)          \* NameError
  ELSE LET deploy_recipe ==
             IF "deploy" \in DOMAIN targets.table THEN targets.table["deploy"]
             ELSE EmptyRecipe
           used == SelectSeq(<<"vercel", "netlify", "fly">>,
                             LAMBDA pr : pr \in deploy_recipe.providers)
       IN  Res(IF deploy_recipe.hosting THEN errs
               ELSE errs \o [i \in 1..Len(used) |-> Diag(15, "Makefile", used[i])],
               FALSE)

OPTIONAL_CATEGORIES == {"database", "auth", "payment", "testing"}

\* "/testing/" in sf
IsTestingStack(sf) == Category(sf) = "testing"

\* fm_t.get("assumes", []) or []
AssumesOrEmpty(h) ==
  IF h.kind = "map" /\ HasKey(h, "assumes") /\ ~h.assumes.null THEN h.assumes.val
  ELSE <<>>

\* the categories the testing stack files assume (lines 940-946)
TestingAssumesCategories ==
  {Category(a) :
     a \in UNION {Range(AssumesOrEmpty(stackDisk[stack_files[i]])) :
                    i \in {j \in 1..Len(stack_files) :
                             /\ IsTestingStack(stack_files[j])
                             /\ ~FmFalsy(stackDisk[stack_files[j]])}}}

\* Check 19: Fixture Coverage for Testing with Partial Assumes
SemCheck19Run(errs) ==
  IF ~fixtures.present \/ TestingAssumesCategories = {} THEN Res(errs, FALSE)
  ELSE LET optional_testing_assumes == TestingAssumesCategories \cap OPTIONAL_CATEGORIES
           ld == FixtureStacks(1, <<>>)
           testing == SelectSeq(ld.stacks, LAMBDA f : "testing" \in DOMAIN f.stack)
           Met(f) == optional_testing_assumes \cap DOMAIN f.stack
           all_met  == \E i \in 1..Len(testing) :
                          Met(testing[i]) = optional_testing_assumes
           none_met == \E i \in 1..Len(testing) :
                          /\ Met(testing[i]) # optional_testing_assumes
                          /\ Met(testing[i]) = {}
           partial_met == \E i \in 1..Len(testing) :
                             /\ Met(testing[i]) # optional_testing_assumes
                             /\ Met(testing[i]) # {}
       IN  IF ld.crash THEN Res(errs, TRUE)
           ELSE Res(IF all_met /\ none_met /\ ~partial_met
                    THEN Append(errs, Diag(19, "tests/fixtures", "partial-met"))
                    ELSE errs,
                    FALSE)

\* Check 20: Makefile Help Text; the findings are those of the help pattern
SemCheck20Run(errs) ==
  IF ~makefile.present THEN errs
  ELSE errs \o [i \in 1..Len(makefile.help) |-> Diag(20, "Makefile", makefile.help[i])]

\* Check 23: the Stripe variables of the e2e job of ci.yml are in the CI Job
\* Template of every testing stack file that has one
SemCheck23Run(errs) ==
  IF ~ciYml.present \/ texts.ciTemplate.null THEN errs
  ELSE LET testing == SelectSeq(stack_files, IsTestingStack)
           lack == SelectSeq(ciYml.e2eStripe, LAMBDA v : v \notin texts.ciTemplate.val)
       IN  errs \o [i \in 1..(Len(testing) * Len(lack)) |->
                      Diag(23, testing[((i - 1) \div Len(lack)) + 1],
                           lack[((i - 1) % Len(lack)) + 1])]


(***************************************************************************)
(* validate-semantics.py: extract_code_blocks and extract_prose.           *)
(* A text is the sequence of its tokens: "F" is a triple backtick, "w" a   *)
(* word character (\w), " " a blank, "\n" a newline and "#" any other      *)
(* character.                                                              *)
(***************************************************************************)
\* lang_filter: None, or a set of language tags
NoFilter == [none |-> TRUE, langs |-> {}]
Filter(langs) == [none |-> FALSE, langs |-> langs]

\* ^ under re.MULTILINE: the start of the text or just after a newline
LineStart(t, p) == p = 1 \/ t[p - 1] = "\n"

\* the end of the longest run of tokens of S that starts at q (the index
\* after its last token): what a greedy \w* or \s* consumes
RunEnd(t, q, S) ==
  CHOOSE j \in q..(Len(t) + 1) :
     /\ \A i \in q..(j - 1) : t[i] \in S
     /\ j = Len(t) + 1 \/ t[j] \notin S

\* \s*\n from q: the greedy \s* gives back just enough for \n to match, so
\* \n is the last newline of the run of blanks and newlines; 0 when the run
\* holds no newline
NewlineAfter(t, q) ==
  LET nl == {i \in q..(RunEnd(t, q, {" ", "\n"}) - 1) : t[i] = "\n"}
  IN  IF nl = {} THEN 0 ELSE CHOOSE k \in nl : \A i \in nl : i <= k

\* the match of the fence pattern that starts at p, if any: anchored says
\* whether the pattern has ^ before its opening and its closing fence
\* (extract_code_blocks) or not (extract_prose); .*? ends at the first
\* closing fence after the newline
FenceMatch(t, p, anchored) ==
  LET w == RunEnd(t, p + 1, {"w"})
      k == NewlineAfter(t, w)
      closers == {e \in (k + 1)..Len(t) :
                    t[e] = "F" /\ (anchored => LineStart(t, e))}
      e == CHOOSE c \in closers : \A d \in closers : c <= d
  IN  IF t[p] # "F" \/ (anchored /\ ~LineStart(t, p)) \/ k = 0 \/ closers = {}
      THEN [found |-> FALSE]
      ELSE [found |-> TRUE, start |-> p, lang |-> SubSeq(t, p + 1, w - 1),
            code |-> SubSeq(t, k + 1, e - 1), end |-> e]

\* pattern.finditer(content): the matches from position p on, left to right
\* and not overlapping
RECURSIVE FindIter(_, _, _)
FindIter(t, p, anchored) ==
  IF p > Len(t) THEN <<>>
  ELSE LET m == FenceMatch(t, p, anchored)
       IN  IF m.found THEN <<m>> \o FindIter(t, m.end + 1, anchored)
           ELSE FindIter(t, p + 1, anchored)

\* content[: m.start()].count("\n")
NewlinesBefore(t, p) == Cardinality({i \in 1..(p - 1) : t[i] = "\n"})

\* StartLine that counts lines from 0
StartLineFromZero(t, m) == NewlinesBefore(t, m.start)

\* start_line = content[: m.start()].count("\n") + 1
StartLine(t, m) == NewlinesBefore(t, m.start) + 1

\* extract_code_blocks(content, lang_filter)
extract_code_blocks(t, f) ==
  LET ms == SelectSeq(FindIter(t, 1, TRUE),
                      LAMBDA m : f.none \/ f.langs = {} \/ m.lang \in f.langs)
  IN  [i \in 1..Len(ms) |->
         [lang |-> ms[i].lang, code |-> ms[i].code, start_line |-> StartLine(t, ms[i])]]

\* re.sub(pattern, "", content): the text from position p on without the
\* matches of the unanchored fence pattern
RECURSIVE SubFences(_, _)
SubFences(t, p) ==
  IF p > Len(t) THEN <<>>
  ELSE LET m == FenceMatch(t, p, FALSE)
       IN  IF m.found THEN SubFences(t, m.end + 1)
           ELSE <<t[p]>> \o SubFences(t, p + 1)

\* extract_prose(content)
extract_prose(t) == SubFences(t, 1)


(***************************************************************************)
(* validate-semantics.py: the checks that search the text of a file.  The  *)
(* content of a file is the token sequence of its text after the header;   *)
(* besides the tokens of the extraction functions it holds phrases, each   *)
(* standing for the characters of its name, and "w" is a word character    *)
(* that is part of no phrase and "pad137" a run of 137 characters that are *)
(* neither word characters nor blanks.  Lines are counted from the first   *)
(* line after the header.                                                  *)
(***************************************************************************)
\* the characters of the file names that the text and the reads lists hold
Spell ==
  [s \in {"CLAUDE.md", "EVENTS.yaml", "E", "docs/CLAUDE.md.bak", "idea/idea.yaml"} |->
     CASE s = "CLAUDE.md" -> <<"C", "L", "A", "U", "D", "E", ".", "m", "d">>
       [] s = "EVENTS.yaml" -> <<"E", "V", "E", "N", "T", "S", ".", "y", "a", "m", "l">>
       [] s = "E" -> <<"E">>
       [] s = "docs/CLAUDE.md.bak" ->
            <<"d", "o", "c", "s", "/", "C", "L", "A", "U", "D", "E", ".", "m", "d",
              ".", "b", "a", "k">>
       [] s = "idea/idea.yaml" ->
            <<"i", "d", "e", "a", "/", "i", "d", "e", "a", ".", "y", "a", "m", "l">>]

\* a in b on two strings: the characters of a occur in b, one after the other
StrIn(a, b) ==
  \E i \in 0..(Len(Spell[b]) - Len(Spell[a])) :
     SubSeq(Spell[b], i + 1, i + Len(Spell[a])) = Spell[a]

\* the phrases whose first character is a word character, and those whose
\* last one is
StackFileRefs ==
  {"from the auth stack file", "from the payment stack file",
   "from the analytics stack file"}
StackKeys == {"stack.auth", "stack.payment"}
WordFirst == {"w", "CLAUDE.md", "EVENTS.yaml", "e.g.,", "if "} \cup StackFileRefs \cup StackKeys
WordLast == {"w", "CLAUDE.md", "EVENTS.yaml"} \cup StackFileRefs \cup StackKeys

\* the number of characters of a token
Width(tok) ==
  CASE tok = "F" -> 3
    [] tok = "CLAUDE.md" -> 9
    [] tok = "EVENTS.yaml" -> 11
    [] tok = "e.g.," -> 5
    [] tok = "if " -> 3
    [] tok = "stack.auth" -> 10
    [] tok = "stack.payment" -> 13
    [] tok = "from the auth stack file" -> 24
    [] tok = "from the payment stack file" -> 27
    [] tok = "from the analytics stack file" -> 29
    [] tok = "pad137" -> 137
    [] tok = "pad138" -> 138
    [] OTHER -> 1

\* m.start(): the number of characters before position i of the text t
RECURSIVE CharsBefore(_, _)
CharsBefore(t, i) ==
  IF i <= 1 THEN 0 ELSE CharsBefore(t, i - 1) + Width(t[i - 1])

\* \bphrase\b matches at position i of t
WordBounded(t, i) ==
  /\ i = 1 \/ t[i - 1] \notin WordLast
  /\ i = Len(t) \/ t[i + 1] \notin WordFirst

\* the phrase at position j lies within the n characters before position i:
\* it is part of t[max(0, start - n) : start]
InContext(t, j, i, n) == j < i /\ CharsBefore(t, i) - CharsBefore(t, j) <= n

\* content.find(phrase) and the line it is on: content[:pos].count("\n") + 1,
\* or "?" (here 0) when the phrase is not in the content
FindLine(t, phrase) ==
  LET at == {i \in 1..Len(t) : t[i] = phrase}
  IN  IF at = {} THEN 0
      ELSE NewlinesBefore(t, CHOOSE i \in at : \A j \in at : i <= j) + 1

\* a located diagnostic: "[rule] file:line: ... 'arg' ..."
LocDiag(rule, file, line, arg) ==
  [rule |-> rule, file |-> file, arg |-> arg, line |-> line]

\* the orders in which a loop can go through an unordered set
Orders(S) ==
  {o \in [1..Cardinality(S) -> S] : \A i, j \in 1..Cardinality(S) : o[i] = o[j] => i = j}

\* Check 5: Conditional Dependency References
\* m.group(1) of "from the (\w+) stack file"
RefCategory(tok) ==
  CASE tok = "from the auth stack file" -> "auth"
    [] tok = "from the payment stack file" -> "payment"
    [] tok = "from the analytics stack file" -> "analytics"

\* the window of Check 5 for a guard
GuardContext == 150

\* HasGuard without the window
HasGuardAnywhere(p, i, category) ==
  \E a, b \in 1..(i - 1) :
     /\ a < b /\ p[a] = "if "
     /\ p[b] \in StackKeys /\ p[b] = IF category = "auth" THEN "stack.auth"
                                     ELSE "stack.payment"

\* the guard pattern finds "if" followed by blanks and, anywhere after it,
\* stack.category in the window before position i of the prose
HasGuard(p, i, category) ==
  \E a, b \in 1..(i - 1) :
     /\ a < b /\ p[a] = "if " /\ InContext(p, a, i, GuardContext)
     /\ p[b] \in StackKeys /\ p[b] = IF category = "auth" THEN "stack.auth"
                                     ELSE "stack.payment"

\* the positions of the prose p of the references that get a diagnostic
Unguarded(p) ==
  SelectSeq([i \in 1..Len(p) |-> i],
            LAMBDA i : /\ p[i] \in StackFileRefs
                       /\ RefCategory(p[i]) \in OPTIONAL_CATEGORIES
                       /\ ~HasGuard(p, i, RefCategory(p[i])))

\* the body of the loop of Check 5 for one skill file
Check5File(sf, text) ==
  LET p == extract_prose(text)
      hits == Unguarded(p)
  IN  [k \in 1..Len(hits) |->
         LocDiag(5, sf, FindLine(text, p[hits[k]]), RefCategory(p[hits[k]]))]

\* the loop of Check 5 over skill_contents.items()
RECURSIVE SemCheck5Run(_, _)
SemCheck5Run(files, errs) ==
  IF files = <<>> THEN errs
  ELSE SemCheck5Run(Tail(files), errs \o Check5File(Head(files).file, Head(files).content))

\* Check 11: Hardcoded Provider Names Match Assumes
\* the keys of PROVIDER_IDENTIFIERS in the order of the dict, and its values
ProviderOrder == <<"posthog", "amplitude", "segment", "stripe">>
PROVIDER_IDENTIFIERS ==
  [id \in Range(ProviderOrder) |->
     CASE id = "posthog" -> "analytics/posthog"
       [] id = "amplitude" -> "analytics/amplitude"
       [] id = "segment" -> "analytics/segment"
       [] id = "stripe" -> "payment/stripe"]

\* {"ts", "tsx", "js", "jsx"}: the language tags of the filter are the tag of
\* one word character, any longer tag is another language
ScriptLangs == Filter({<<"w">>})

\* identifier in code_lower, for a provider name written in lower case
UsesIdentifier(block, id) == \E i \in 1..Len(block.code) : block.code[i] = id

\* the identifiers of one block that get a diagnostic: the loop over
\* PROVIDER_IDENTIFIERS ends at the first identifier it reports
ReportedProviders(sf, block, assumes) ==
  LET missing == SelectSeq(ProviderOrder,
                           LAMBDA id : /\ UsesIdentifier(block, id)
                                       /\ PROVIDER_IDENTIFIERS[id] # sf
                                       /\ PROVIDER_IDENTIFIERS[id] \notin assumes)
  IN  IF missing = <<>> THEN <<>> ELSE <<Head(missing)>>

\* the loop over the blocks of one stack file
RECURSIVE Check11Blocks(_, _, _)
Check11Blocks(sf, bs, assumes) ==
  IF bs = <<>> THEN <<>>
  ELSE LET ids == ReportedProviders(sf, Head(bs), assumes)
       IN  [k \in 1..Len(ids) |-> LocDiag(11, sf, Head(bs).start_line, ids[k])]
           \o Check11Blocks(sf, Tail(bs), assumes)

\* the loop of Check 11 over stack_contents.items()
RECURSIVE Check11Loop(_, _)
Check11Loop(files, errs) ==
  IF files = <<>> THEN Res(errs, FALSE)
  ELSE LET sf == Head(files).file
       IN  IF stackDisk[sf].kind \in {"invalid", "nonmap"} THEN Res(errs, TRUE)
           ELSE IF FmFalsy(stackDisk[sf]) THEN Check11Loop(Tail(files), errs)
           ELSE Check11Loop(Tail(files),
                  errs \o Check11Blocks(sf,
                                        extract_code_blocks(Head(files).content, ScriptLangs),
                                        Range(AssumesOrEmpty(stackDisk[sf]))))

\* Check 12: Prose File References in Reads Frontmatter
SPEC_REFERENCE_FILES == {"CLAUDE.md", "EVENTS.yaml"}

\* the window of Check 12 for "e.g.,"
ExampleContext == 100

\* set(fm.get("reads", []) or [])
ReadsOf(sf) ==
  IF HasKey(skillDisk[sf], "reads") /\ ~bodies.skill[sf].reads.null
  THEN Range(bodies.skill[sf].reads.val) ELSE {}

\* any(ref_file in r or r in ref_file for r in reads)
ReadsMatched(ref_file, reads) ==
  \E r \in reads : StrIn(ref_file, r) \/ StrIn(r, ref_file)

\* the matches of ref_file in the prose that no "e.g.," precedes within the
\* window
Unexcused(p, ref_file) ==
  {i \in 1..Len(p) :
     /\ p[i] = ref_file /\ WordBounded(p, i)
     /\ ~\E j \in 1..Len(p) : p[j] = "e.g.," /\ InContext(p, j, i, ExampleContext)}

\* the body of the loop of Check 12 for one skill file, its reference files
\* taken in the order ord
RECURSIVE Check12File(_, _, _)
Check12File(sf, text, ord) ==
  IF ord = <<>> THEN <<>>
  ELSE (IF Unexcused(extract_prose(text), Head(ord)) # {}
           /\ ~ReadsMatched(Head(ord), ReadsOf(sf))
        THEN <<LocDiag(12, sf, FindLine(text, Head(ord)), Head(ord))>>
        ELSE <<>>)
       \o Check12File(sf, text, Tail(ord))

\* the loop of Check 12 over skill_contents.items(); parse_frontmatter or
\* fm.get raises on a header that is not YAML or not a mapping
RECURSIVE Check12Loop(_, _, _)
Check12Loop(files, ord, errs) ==
  IF files = <<>> THEN Res(errs, FALSE)
  ELSE LET sf == Head(files).file
       IN  IF skillDisk[sf].kind \in {"invalid", "nonmap"} THEN Res(errs, TRUE)
           ELSE IF skillDisk[sf].kind # "map"
           THEN Check12Loop(Tail(files), ord, errs)
           ELSE Check12Loop(Tail(files), ord,
                            errs \o Check12File(sf, Head(files).content, ord))

\* the checks of validate-semantics whose findings depend only on what their
\* patterns match in the text of the stack and skill files
TextChecks == {1, 8, 9, 14, 16, 17, 18, 21, 22, 24, 25, 26, 27, 28,
               29, 30, 31}

SemOrder ==
  <<"collect", "check1", "check2", "check3", "check4", "check5", "check6",
    "check7", "check8", "check9", "check10", "check11", "check12", "check13",
    "check14", "check15", "check16", "check17", "check18", "check19", "check20",
    "check21", "check22", "check23", "check24", "check25", "check26", "check27",
    "check28", "check29", "check30", "check31", "summary", "done">>

FmOrder ==
  <<"collect", "check1", "check2", "check3", "check4", "check5", "check6",
    "check7", "check8", "check9", "check10", "summary", "done">>

PcIndex(ord, p) == CHOOSE i \in 1..Len(ord) : ord[i] = p

\* the number of the check the run is at
CheckNo == PcIndex(SemOrder, pc) - 1

SemNextPc == SemOrder[PcIndex(SemOrder, pc) + 1]

SemTextRun(k, errs) ==
  Res(IF k \in texts.findings THEN Append(errs, Diag(k, "text", "finding")) ELSE errs,
      FALSE)

SemFrame == UNCHANGED <<script, corpusVars, ideaVars, textVars, loadVars, eventVars, stack_files, skill_files, stack_data,
                        skill_data>>

SemCollect ==
  /\ At("semantics", "collect")
  /\ stack_files' = CollectStacks
  /\ skill_files' = CollectSkills
  /\ stack_contents' = [i \in 1..Len(CollectStacks) |->
                          [file |-> CollectStacks[i],
                           content |-> bodies.stack[CollectStacks[i]]]]
  /\ skill_contents' = [i \in 1..Len(CollectSkills) |->
                          [file |-> CollectSkills[i],
                           content |-> bodies.skill[CollectSkills[i]].text]]
  /\ pc' = "check1"
  /\ UNCHANGED <<script, ERRORS, status, corpusVars, ideaVars, textVars, eventVars,
                 stack_data, skill_data, targets, has_payment, opened>>

SemTextCheck ==
  /\ script = "semantics" /\ status = "running"
  /\ pc \in {SemOrder[k + 1] : k \in TextChecks}
  /\ Goto(SemTextRun(CheckNo, ERRORS), SemNextPc)
  /\ SemFrame /\ UNCHANGED <<targets, has_payment, opened>>

SemCheck5 ==
  /\ At("semantics", "check5")
  /\ Goto(Res(SemCheck5Run(skill_contents, ERRORS), FALSE), "check6")
  /\ SemFrame /\ UNCHANGED <<targets, has_payment, opened>>

SemCheck11 ==
  /\ At("semantics", "check11")
  /\ Goto(Check11Loop(stack_contents, ERRORS), "check12")
  /\ SemFrame /\ UNCHANGED <<targets, has_payment, opened>>

\* the iteration order of the set SPEC_REFERENCE_FILES is whatever the hash
\* seed of the run gives
SemCheck12 ==
  /\ At("semantics", "check12")
  /\ \E ord \in Orders(SPEC_REFERENCE_FILES) :
        Goto(Check12Loop(skill_contents, ord, ERRORS), "check13")
  /\ SemFrame /\ UNCHANGED <<targets, has_payment, opened>>

SemCheck2 ==
  /\ At("semantics", "check2")
  /\ Goto(Res(SemCheck2Run(ERRORS), FALSE), "check3")
  /\ targets' = IF makefile.present
                THEN [built |-> TRUE, table |-> TargetTable(makefile.tgts)]
                ELSE targets
  /\ opened' = Open(makefile, "Makefile")
  /\ SemFrame /\ UNCHANGED has_payment

SemCheck3 ==
  /\ At("semantics", "check3")
  /\ LET r == SemCheck3Run(ERRORS, has_payment)
     IN  Goto(r, "check4") /\ has_payment' = r.hp
  /\ opened' = Open(fixtures, "tests/fixtures")
  /\ SemFrame /\ UNCHANGED targets

SemCheck4 ==
  /\ At("semantics", "check4")
  /\ Goto(SemCheck4Run(ERRORS), "check5")
  /\ SemFrame /\ UNCHANGED <<targets, has_payment, opened>>

SemCheck6 ==
  /\ At("semantics", "check6")
  /\ Goto(Res(SemCheck6Run(ERRORS), FALSE), "check7")
  /\ SemFrame /\ UNCHANGED <<targets, has_payment, opened>>

SemCheck7 ==
  /\ At("semantics", "check7")
  /\ Goto(SemCheck7Run(ERRORS), "check8")
  /\ opened' = Open(fixtures, "tests/fixtures")
  /\ SemFrame /\ UNCHANGED <<targets, has_payment>>

SemCheck10 ==
  /\ At("semantics", "check10")
  /\ Goto(SemCheck10Run(ERRORS), "check11")
  /\ SemFrame /\ UNCHANGED <<targets, has_payment, opened>>

SemCheck13 ==
  /\ At("semantics", "check13")
  /\ Goto(SemCheck13Run(ERRORS), "check14")
  /\ opened' = Open(fixtures, "tests/fixtures")
  /\ SemFrame /\ UNCHANGED <<targets, has_payment>>

SemCheck15 ==
  /\ At("semantics", "check15")
  /\ Goto(SemCheck15Run(ERRORS), "check16")
  /\ SemFrame /\ UNCHANGED <<targets, has_payment, opened>>

SemCheck19 ==
  /\ At("semantics", "check19")
  /\ Goto(SemCheck19Run(ERRORS), "check20")
  /\ opened' = Open(fixtures, "tests/fixtures")
  /\ SemFrame /\ UNCHANGED <<targets, has_payment>>

SemCheck20 ==
  /\ At("semantics", "check20")
  /\ Goto(Res(SemCheck20Run(ERRORS), FALSE), "check21")
  /\ opened' = Open(makefile, "Makefile")
  /\ SemFrame /\ UNCHANGED <<targets, has_payment>>

SemCheck23 ==
  /\ At("semantics", "check23")
  /\ Goto(Res(SemCheck23Run(ERRORS), FALSE), "check24")
  /\ opened' = Open(ciYml, "ci.yml")
  /\ SemFrame /\ UNCHANGED <<targets, has_payment>>

SemSummary ==
  /\ At("semantics", "summary")
  /\ status' = SummaryStatus(ERRORS)
  /\ pc' = "done"
  /\ UNCHANGED <<script, ERRORS, corpusVars, ideaVars, textVars, loadVars, eventVars, stack_files, skill_files,
                 stack_data, skill_data, targets, has_payment, opened>>

NextSem ==
  \/ SemCollect \/ SemTextCheck \/ SemCheck5 \/ SemCheck11 \/ SemCheck12
  \/ SemCheck2 \/ SemCheck3 \/ SemCheck4
  \/ SemCheck6 \/ SemCheck7 \/ SemCheck10 \/ SemCheck13 \/ SemCheck15
  \/ SemCheck19 \/ SemCheck20 \/ SemCheck23 \/ SemSummary


(***************************************************************************)
(* Corpora of validate-semantics runs.                                     *)
(***************************************************************************)
StackMap(cats) ==
  [c \in cats |-> CASE c = "analytics" -> "posthog"
                    [] c = "payment" -> "stripe"
                    [] c = "testing" -> "playwright"
                    [] OTHER -> "supabase"]

GoodPages == Pages("list", <<"landing", "signup">>)

GoodIdea(cats) == Idea("map", GoodName, {}, GoodPages, StackVal("map", StackMap(cats)))

GoodAssertions == Assertions("map", FALSE, Val(<<>>), Val(2))

GoodFixture(cats) ==
  Fixture("map", {"idea", "events", "assertions"}, GoodIdea(cats), GoodAssertions,
          Events("map", FALSE))

AllFixtureKeys == {"idea", "events", "assertions"}

\* a fixture file that is not YAML, and one that is YAML but not a mapping
InvalidFixture == Fixture("invalid", {}, EmptyIdea, EmptyAssertions, EmptyEvents)
NonMapFixture == Fixture("nonmap", {}, EmptyIdea, EmptyAssertions, EmptyEvents)

\* fixtures that parse and have an unexpected shape somewhere
BadShapeFixtures ==
  {NonMapFixture,
   Fixture("map", AllFixtureKeys,
           Idea("nonmap", <<>>, {}, Pages("list", <<>>), StackVal("map", <<>>)),
           GoodAssertions, Events("map", FALSE)),
   Fixture("map", AllFixtureKeys,
           Idea("map", GoodName, {}, Pages("str", <<>>), StackVal("str", <<>>)),
           GoodAssertions, Events("map", FALSE)),
   Fixture("map", AllFixtureKeys, GoodIdea({"analytics"}),
           Assertions("nonmap", FALSE, Val(<<>>), NullVal), Events("map", TRUE)),
   Fixture("map", AllFixtureKeys, GoodIdea({"analytics"}), GoodAssertions,
           Events("nonmap", FALSE)),
   Fixture("map", AllFixtureKeys,
           Idea("map", GoodName, {}, Pages("list", <<"landing">>),
                StackVal("map", StackMap({"analytics"}))),
           Assertions("map", FALSE, NullVal, NullVal), Events("map", FALSE))}

\* fixtures of the expected shape, with and without defects
ShapedFixtures ==
  {GoodFixture({"analytics"}),
   GoodFixture({"analytics", "payment"}),
   GoodFixture({"analytics", "testing"}),
   GoodFixture({"analytics", "testing", "auth", "database"}),
   Fixture("map", {"idea"},
           Idea("map", BadName, {"title"}, Pages("list", <<"pricing">>),
                StackVal("map", <<>>)),
           EmptyAssertions, EmptyEvents),
   Fixture("map", AllFixtureKeys,
           Idea("map", GoodName, {}, Pages("list", <<"landing">>), StackVal("map", <<>>)),
           Assertions("map", TRUE, Val(<<"signup_start">>), Val(2)),
           Events("map", TRUE)),
   Fixture("map", AllFixtureKeys, GoodIdea({"analytics", "payment"}),
           Assertions("map", TRUE, Val(<<>>), Val(2)), Events("map", TRUE)),
   Fixture("map", AllFixtureKeys,
           Idea("map", GoodName, {}, GoodPages,
                StackVal("map", [c \in {"analytics", "testing"} |->
                                   IF c = "analytics" THEN "mixpanel" ELSE "playwright"])),
           GoodAssertions, Events("map", FALSE))}

FixtureVariants == {InvalidFixture} \cup BadShapeFixtures \cup ShapedFixtures

FixtureDir(files) == [present |-> TRUE, files |-> files]

\* the characters names are made of, and the names of the corpora
NameChars == {"a", "1", "-", "F", "_", "\n"}
Names == SeqsUpTo(NameChars, MaxName) \cup {GoodName, BadName}

GoodTargets ==
  <<Target("validate", TRUE, FALSE, TRUE, TRUE, {}, FALSE),
    Target("dev", TRUE, TRUE, FALSE, FALSE, {}, FALSE),
    Target("deploy", TRUE, TRUE, FALSE, FALSE, {"vercel"}, TRUE)>>

GoodMakefile ==
  Makefile(SkillNames, GoodTargets, Val(Range(REQUIRED_IDEA_FIELDS)), <<>>, <<>>)

SemMakefiles ==
  {Absent, GoodMakefile,
   Makefile(SkillNames,
            <<Target("validate", FALSE, FALSE, TRUE, FALSE, {}, FALSE),
              Target("build", TRUE, FALSE, FALSE, FALSE, {}, FALSE),
              Target("deploy", FALSE, FALSE, FALSE, FALSE, {"vercel", "fly"}, FALSE)>>,
            Val((Range(REQUIRED_IDEA_FIELDS) \ {"stack"}) \cup {"budget"}),
            <<"node_modules">>, <<"deploy">>),
   Makefile(SkillNames,
            <<Target("test", TRUE, FALSE, FALSE, FALSE, {}, FALSE),
              Target("lint", TRUE, FALSE, FALSE, FALSE, {}, FALSE),
              Target("test", TRUE, TRUE, FALSE, FALSE, {}, FALSE)>>,
            NullVal, <<>>, <<>>)}

Texts(findings, always, notBranches, ciTemplate) ==
  [findings |-> findings, always |-> always, notBranches |-> notBranches,
   ciTemplate |-> ciTemplate]

\* the NOT branches the prose of the stack files states
SomeNotBranches ==
  [sf \in {"analytics/posthog", "testing/playwright"} |->
     IF sf = "analytics/posthog" THEN <<<<"payment", "stripe">>>>
     ELSE <<<<"auth", "supabase">>, <<"payment", "stripe">>>>]

SemTexts ==
  {Texts({}, NullVal, <<>>, NullVal),
   Texts({}, Val(<<"analytics">>), SomeNotBranches, Val({"STRIPE_SECRET_KEY"})),
   Texts({1, 4, 14, 31}, Val(<<"analytics", "payment">>), SomeNotBranches, Val({}))}

TestingHdrs ==
  {AbsentStack, ValidStack,
   StackHdr("map", {}, Val(<<"auth/supabase", "database/supabase">>), Val(DefaultPh)),
   StackHdr("map", {}, Val(<<"analytics/posthog", "payment/stripe">>), Val(DefaultPh))}

SemStacks(stripe, testing) ==
  [p \in StackPairs |->
     IF p = "analytics/posthog" THEN ValidStack
     ELSE IF p = "payment/stripe" THEN stripe
     ELSE IF p = "testing/playwright" THEN testing ELSE AbsentStack]

SemCiFiles ==
  {Absent, CiFile(PhKeys),
   [present |-> TRUE, keys |-> PhKeys,
    e2eStripe |-> <<"STRIPE_SECRET_KEY", "NEXT_PUBLIC_STRIPE_KEY">>]}

\* the state before the first statement of validate-semantics
StartSemWith(st, b) ==
  /\ script = "semantics" /\ pc = "collect"
  /\ ERRORS = <<>> /\ status = "running"
  /\ stackDisk = st /\ skillDisk = AllSkills(ValidSkill)
  /\ existing = {VerifyRef, FailureRef}
  /\ runSkill = RunSkillFile(TRUE, <<>>)
  /\ claudeMd = ClaudeFile(TRUE, SkillOrder)
  /\ gitleaks = Absent
  /\ stack_files = <<>> /\ skill_files = <<>>
  /\ stack_data = <<>> /\ skill_data = <<>>
  /\ targets = NoTargets /\ has_payment = "unset" /\ opened = {}
  /\ ideaDoc = [kind |-> "absent"] /\ warnings = "unset" /\ printed = <<>>
  /\ NoText /\ bodies = b /\ NotLoaded /\ NoEvents

StartSem(st) == StartSemWith(st, NoBodies)

\* family 1: the fixtures vary
InitSemFixtures ==
  \E files \in SeqsUpTo(FixtureVariants, MaxFixtures),
     testing \in {AbsentStack,
                  StackHdr("map", {}, Val(<<"auth/supabase", "database/supabase">>),
                           Val(DefaultPh))} :
     /\ StartSem(SemStacks(AbsentStack, testing))
     /\ fixtures = FixtureDir(files)
     /\ makefile \in {Absent, GoodMakefile}
     /\ ciYml = Absent
     /\ texts = Texts({}, Val(<<"analytics">>), SomeNotBranches, NullVal)

\* family 2: the collaborator documents, the stacks and the prose vary
InitSemCollab ==
  \E stripe \in {AbsentStack, ValidStack}, testing \in TestingHdrs :
     /\ StartSem(SemStacks(stripe, testing))
     /\ fixtures \in {Absent, FixtureDir(<<>>),
                      FixtureDir(<<GoodFixture({"analytics"})>>),
                      FixtureDir(<<GoodFixture({"analytics", "testing"}),
                                   GoodFixture({"analytics", "testing", "auth", "database"})>>)}
     /\ makefile \in SemMakefiles
     /\ ciYml \in SemCiFiles
     /\ texts \in SemTexts

\* family 3: the name of the idea of a fixture varies
InitSemNames ==
  \E n \in Names :
     /\ StartSem(SemStacks(AbsentStack, AbsentStack))
     /\ fixtures = FixtureDir(<<Fixture("map", AllFixtureKeys,
                                        Idea("map", n, {}, GoodPages,
                                             StackVal("map", StackMap({"analytics"}))),
                                        GoodAssertions, Events("map", FALSE))>>)
     /\ makefile = Absent
     /\ ciYml = Absent
     /\ texts = Texts({}, Val(<<"analytics">>), SomeNotBranches, NullVal)

InitSem == InitSemFixtures \/ InitSemCollab \/ InitSemNames

SpecSem == InitSem /\ [][NextSem]_vars

(***************************************************************************)
(* Corpora of validate-semantics runs in which the text of a file varies.  *)
(***************************************************************************)
\* the corpus of NoBodies with the reads list and the text of one skill file,
\* or with the text of one stack file
SkillBodies(n, reads, text) ==
  [NoBodies EXCEPT !.skill[n] = [reads |-> reads, text |-> text]]
StackBodies(p, text) == [NoBodies EXCEPT !.stack[p] = text]

\* a run over a corpus with no fixtures and no collaborator documents
StartProse(st, b) ==
  /\ StartSemWith(st, b)
  /\ fixtures = Absent /\ makefile = Absent /\ ciYml = Absent /\ texts = NoTexts

\* family 1: the references to the specification files in the text of a
\* skill file and its reads list vary
RefTokens == {"CLAUDE.md", "EVENTS.yaml", "e.g.,", "\n", "w"}
ReadsLists ==
  {Val(<<>>), Val(<<"CLAUDE.md">>), Val(<<"E">>), Val(<<"docs/CLAUDE.md.bak">>),
   Val(<<"idea/idea.yaml", "EVENTS.yaml">>)}

InitProseReads ==
  \E t \in SeqsUpTo(RefTokens, MaxProse), r \in ReadsLists :
     StartProse(SemStacks(AbsentStack, AbsentStack), SkillBodies("change", r, t))

\* family 2: the references to stack files, the guards and the fences in
\* the text of a skill file vary
GuardTokens == {"F", "\n", "if ", "stack.auth", "from the auth stack file"}

InitProseGuards ==
  \E t \in SeqsUpTo(GuardTokens, MaxProse) :
     StartProse(SemStacks(AbsentStack, AbsentStack), SkillBodies("change", Val(<<>>), t))

\* family 3: a guard at the edge of the window before a reference, for each
\* category, and a guarded reference before an unguarded one
WindowTexts ==
  {<<"if ", key, pad, ref>> \o after :
     key \in StackKeys, pad \in {"pad137", "pad138"}, ref \in StackFileRefs,
     after \in {<<>>, <<"\n", "if ", "stack.auth", "stack.payment">>}}
  \cup {<<"if ", "stack.auth", "from the auth stack file", "\n", pad, ref>> :
          pad \in {"pad137", "pad138"}, ref \in StackFileRefs}

InitProseWindow ==
  \E t \in WindowTexts :
     StartProse(SemStacks(AbsentStack, AbsentStack), SkillBodies("change", Val(<<>>), t))

\* family 4: the code blocks of a stack file, the provider names they use
\* and the assumes list of the file vary
CodeBlock(lang, ids) ==
  <<"F">> \o lang \o <<"\n">> \o ids \o <<"\n", "F", "\n">>

CodeBlocks ==
  {CodeBlock(lang, ids) :
     lang \in {<<"w">>, <<"w", "w">>},
     ids \in {<<>>, <<"stripe">>, <<"amplitude">>, <<"stripe", " ", "amplitude">>,
              <<"posthog">>}}

RECURSIVE Concat(_)
Concat(ss) == IF ss = <<>> THEN <<>> ELSE Head(ss) \o Concat(Tail(ss))

InitProseBlocks ==
  \E bs \in SeqsUpTo(CodeBlocks, MaxBlocks),
     a \in {<<>>, <<"payment/stripe">>} :
     StartProse([SemStacks(AbsentStack, AbsentStack) EXCEPT
                   !["analytics/posthog"] = StackHdr("map", {}, Val(a), Val(DefaultPh))],
                StackBodies("analytics/posthog", Concat(bs)))

InitProse == InitProseReads \/ InitProseGuards \/ InitProseWindow \/ InitProseBlocks

SpecProse == InitProse /\ [][NextSem]_vars


(***************************************************************************)
(* validate-idea.py.  The run loads idea/idea.yaml, stops with             *)
(* sys.exit(1) at the first hard error, prints warnings on the way and     *)
(* ends with sys.exit(2 if warnings else 0).                               *)
(***************************************************************************)
\* idea/idea.yaml: kind as for a fixture file ("absent", "invalid",
\* "nonmap", "map"), the idea it decodes to, and whether template_repo is
\* set to something truthy
IdeaDoc(kind, idea, template_repo) ==
  [kind |-> kind, idea |-> idea, template_repo |-> template_repo]

Msg(kind, arg) == [kind |-> kind, arg |-> arg]

\* the categories of a stack mapping in the order .items() yields them
CatOrder == <<"analytics", "auth", "database", "payment", "testing">>

\* os.path.isfile(f".claude/stacks/{k}/{v}.md")
IsStackFileOf(k, v) ==
  \E p \in DOMAIN stackDisk : PairParts[p] = <<k, v>> /\ stackDisk[p].kind # "absent"

\* the header of .claude/stacks/{k}/{v}.md
StackFileOf(k, v) ==
  stackDisk[CHOOSE p \in DOMAIN stackDisk : PairParts[p] = <<k, v>>]

\* assume.split("/")
AssumeParts(assume) ==
  IF assume \in DOMAIN PairParts THEN PairParts[assume] ELSE <<assume>>

\* the result of a step of validate-idea: what it printed, the warnings flag
\* after it, and how it ended the run ("" when it did not)
IdeaRes(out, w, end) == [out |-> out, w |-> w, end |-> end]

\* lines 18-19: yaml.safe_load(open("idea/idea.yaml")); warnings = False
IdeaLoadRun ==
  IF ideaDoc.kind \in {"absent", "invalid"} THEN IdeaRes(<<>>, warnings, "exception")
  ELSE IdeaRes(<<>>, "False", "")

\* lines 21-29: name format
IdeaNameRun ==
  IF ideaDoc.kind # "map" THEN IdeaRes(<<>>, warnings, "exception")
  ELSE IF ~FullMatchSlug(ideaDoc.idea.name)
  THEN IdeaRes(<<Msg("Error", "name")>>, warnings, "exit1")
  ELSE IdeaRes(<<>>, warnings, "")

\* lines 31-36: landing page; p.get raises when pages is a string or a
\* mapping, whose elements are strings
IdeaLandingRun ==
  LET pages == ideaDoc.idea.pages
  IN  IF pages.shape # "list" THEN IdeaRes(<<>>, warnings, "exception")
      ELSE IF ~HasPage(pages, "landing")
      THEN IdeaRes(<<Msg("Error", "landing")>>, warnings, "exit1")
      ELSE IdeaRes(<<>>, warnings, "")

\* lines 38-53: required fields, then the template_repo warning
IdeaRequiredRun ==
  LET missing == SelectSeq(REQUIRED_IDEA_FIELDS,
                           LAMBDA f : FieldFalsy(ideaDoc.idea, f))
  IN  IF missing # <<>>
      THEN IdeaRes(<<Msg("Error", "required")>>, warnings, "exit1")
      ELSE IF ~ideaDoc.template_repo
      THEN IdeaRes(<<Msg("Warning", "template_repo")>>, warnings, "")
      ELSE IdeaRes(<<>>, warnings, "")

\* the categories of the stack mapping, in .items() order
StackItems(stack) == SelectSeq(CatOrder, LAMBDA k : k \in DOMAIN stack.map)

\* lines 54-68: stack file existence; stack.items raises when stack is a
\* string
IdeaStackFilesRun ==
  LET stack == ideaDoc.idea.stack
  IN  IF stack.shape # "map" THEN IdeaRes(<<>>, warnings, "exception")
      ELSE LET noFile == SelectSeq(StackItems(stack),
                                   LAMBDA k : ~IsStackFileOf(k, stack.map[k]))
           IN  IF noFile # <<>>
               THEN IdeaRes([i \in 1..Len(noFile) |-> Msg("Warning", noFile[i])],
                            "True", "")
               ELSE IdeaRes(<<>>, warnings, "")

\* lines 70-74: testing in stack
IdeaTestingRun ==
  IF "testing" \in DOMAIN ideaDoc.idea.stack.map
  THEN IdeaRes(<<Msg("Warning", "testing")>>, warnings, "")
  ELSE IdeaRes(<<>>, warnings, "")

\* lines 88-101: the warnings about the assumes list of one stack file
AssumeWarnings(stack, cat, assumes) ==
  LET bad == SelectSeq(assumes,
               LAMBDA a : /\ Len(AssumeParts(a)) = 2
                          /\ \/ AssumeParts(a)[1] \notin DOMAIN stack.map
                             \/ stack.map[AssumeParts(a)[1]] # AssumeParts(a)[2])
  IN  [i \in 1..Len(bad) |-> Msg("assumes", bad[i])]

\* lines 77-101: the loop over stack.items(); yaml.safe_load raises on a
\* header that is not YAML and fm.get on one that is a list or a string
RECURSIVE AssumesWarningLoop(_, _, _)
AssumesWarningLoop(stack, cats, acc) ==
  IF cats = <<>> THEN [ws |-> acc, crash |-> FALSE]
  ELSE LET cat == Head(cats)
           val == stack.map[cat]
       IN  IF ~IsStackFileOf(cat, val) THEN AssumesWarningLoop(stack, Tail(cats), acc)
           ELSE LET h == StackFileOf(cat, val)
                IN  IF h.kind = "none" THEN AssumesWarningLoop(stack, Tail(cats), acc)
                    ELSE IF h.kind \in {"invalid", "nonmap"}
                    THEN [ws |-> acc, crash |-> TRUE]
                    ELSE AssumesWarningLoop(stack, Tail(cats),
                           acc \o AssumeWarnings(stack, cat, AssumesOrEmpty(h)))

\* lines 76-111: stack assumes consistency
IdeaAssumesRun ==
  LET stack == ideaDoc.idea.stack
      r == AssumesWarningLoop(stack, StackItems(stack), <<>>)
  IN  IF r.crash THEN IdeaRes(<<>>, warnings, "exception")
      ELSE IF r.ws # <<>>
      THEN IdeaRes(<<Msg("Warning", "assumes")>> \o r.ws, "True", "")
      ELSE IdeaRes(<<>>, warnings, "")

\* line 113: sys.exit(2 if warnings else 0)
IdeaExitStatus(w) == IF w = "True" THEN "exit2" ELSE "exit0"

IdeaOrder ==
  <<"load", "name", "landing", "required", "stack_files", "testing", "assumes",
    "exit", "done">>

\* a step of validate-idea: the run goes on to the next section, or ends at
\* this one with sys.exit(1) or an exception
IdeaGoto(r) ==
  /\ printed' = printed \o r.out
  /\ warnings' = r.w
  /\ pc' = IF r.end = "" THEN IdeaOrder[PcIndex(IdeaOrder, pc) + 1]
           ELSE IF r.end = "exit1" THEN "done" ELSE pc
  /\ status' = IF r.end = "" THEN status ELSE r.end
  /\ UNCHANGED <<script, ERRORS, corpusVars, textVars, loadVars, eventVars, ideaDoc, stack_files,
                 skill_files, stack_data, skill_data, targets, has_payment, opened>>

IdeaLoad == At("idea", "load") /\ IdeaGoto(IdeaLoadRun)
IdeaName == At("idea", "name") /\ IdeaGoto(IdeaNameRun)
IdeaLanding == At("idea", "landing") /\ IdeaGoto(IdeaLandingRun)
IdeaRequired == At("idea", "required") /\ IdeaGoto(IdeaRequiredRun)
IdeaStackFiles == At("idea", "stack_files") /\ IdeaGoto(IdeaStackFilesRun)
IdeaTesting == At("idea", "testing") /\ IdeaGoto(IdeaTestingRun)
IdeaAssumes == At("idea", "assumes") /\ IdeaGoto(IdeaAssumesRun)

IdeaExit ==
  /\ At("idea", "exit")
  /\ status' = IdeaExitStatus(warnings)
  /\ pc' = "done"
  /\ UNCHANGED <<script, ERRORS, corpusVars, ideaVars, textVars, loadVars, eventVars, stack_files, skill_files,
                 stack_data, skill_data, targets, has_payment, opened>>

NextIdea ==
  \/ IdeaLoad \/ IdeaName \/ IdeaLanding \/ IdeaRequired \/ IdeaStackFiles
  \/ IdeaTesting \/ IdeaAssumes \/ IdeaExit

(***************************************************************************)
(* Corpora of validate-idea runs.                                          *)
(***************************************************************************)
NoIdeaDoc == IdeaDoc("absent", EmptyIdea, FALSE)

GoodIdeaDoc(cats) == IdeaDoc("map", GoodIdea(cats), TRUE)

\* the state before the first statement of validate-idea
StartIdea(st, doc) ==
  /\ script = "idea" /\ pc = "load"
  /\ ERRORS = <<>> /\ status = "running"
  /\ stackDisk = st /\ skillDisk = AllSkills(ValidSkill)
  /\ existing = {VerifyRef, FailureRef}
  /\ NoCollaborators
  /\ fixtures = Absent /\ texts = NoTexts
  /\ stack_files = <<>> /\ skill_files = <<>>
  /\ stack_data = <<>> /\ skill_data = <<>>
  /\ targets = NoTargets /\ has_payment = "unset" /\ opened = {}
  /\ ideaDoc = doc /\ warnings = "unset" /\ printed = <<>>
  /\ NoText /\ bodies = NoBodies /\ NotLoaded /\ NoEvents

\* family 1: the name varies
InitIdeaNames ==
  \E n \in Names :
     StartIdea(SemStacks(ValidStack, AbsentStack),
               IdeaDoc("map",
                       Idea("map", n, {}, GoodPages,
                            StackVal("map", StackMap({"analytics"}))),
                       TRUE))

\* headers of the testing stack file, as validate-idea reads them
IdeaStackHdrs ==
  TestingHdrs \cup BrokenStackHdrs
  \cup {StackHdr("map", {}, NullVal, Val(DefaultPh)),
        StackHdr("map", {"assumes"}, Val(<<>>), Val(DefaultPh)),
        StackHdr("map", {}, Val(<<"posthog", "analytics/TEMPLATE">>), Val(DefaultPh))}

\* family 2: the stack mapping and the stack files vary
InitIdeaStacks ==
  \E cats \in SUBSET {"analytics", "payment", "testing", "auth"},
     stripe \in {AbsentStack, ValidStack}, testing \in IdeaStackHdrs,
     tr \in BOOLEAN :
     StartIdea(SemStacks(stripe, testing),
               IdeaDoc("map",
                       Idea("map", GoodName, {}, GoodPages,
                            StackVal("map", StackMap(cats))),
                       tr))

\* family 3: the document, its pages and its fields vary
InitIdeaShapes ==
  \E kind \in {"absent", "invalid", "nonmap", "map"},
     pages \in {GoodPages, Pages("list", <<>>), Pages("list", <<"pricing">>),
                Pages("list", <<"landing">>), Pages("str", <<>>)},
     empty \in {{}, {"title"}, {"owner", "features"}},
     stack \in {StackVal("map", StackMap({"analytics"})), StackVal("map", <<>>),
                StackVal("str", <<>>)},
     n \in {GoodName, BadName}, tr \in BOOLEAN :
     StartIdea(SemStacks(ValidStack, AbsentStack),
               IdeaDoc(kind, Idea("map", n, empty, pages, stack), tr))

InitIdea == InitIdeaNames \/ InitIdeaStacks \/ InitIdeaShapes

SpecIdea == InitIdea /\ [][NextIdea]_vars


(***************************************************************************)
(* validate-semantics.py: runs of extract_code_blocks and extract_prose on  *)
(* a text of their own.                                                    *)
(***************************************************************************)
\* the calls, one after the other on the same arguments
ExtractFrame ==
  UNCHANGED <<script, ERRORS, status, corpusVars, ideaVars, loadVars, eventVars,
              content, lang_filter,
              stack_files, skill_files, stack_data, skill_data, targets,
              has_payment, opened>>

ExtractBlocks ==
  /\ At("extract", "blocks")
  /\ blocks' = extract_code_blocks(content, lang_filter)
  /\ pc' = "blocks_again"
  /\ ExtractFrame /\ UNCHANGED <<blocks_again, prose>>

ExtractBlocksAgain ==
  /\ At("extract", "blocks_again")
  /\ blocks_again' = extract_code_blocks(content, lang_filter)
  /\ pc' = "prose"
  /\ ExtractFrame /\ UNCHANGED <<blocks, prose>>

ExtractProse ==
  /\ At("extract", "prose")
  /\ prose' = extract_prose(content)
  /\ pc' = "done"
  /\ ExtractFrame /\ UNCHANGED <<blocks, blocks_again>>

NextExtract == ExtractBlocks \/ ExtractBlocksAgain \/ ExtractProse

\* the texts and filters the functions are applied to
Tokens == {"F", "w", " ", "\n", "#"}
Contents == SeqsUpTo(Tokens \ {"#"}, MaxText) \cup SeqsUpTo(Tokens, MaxOther)
Filters == {NoFilter, Filter({<<"w">>})}

InitExtract ==
  /\ script = "extract" /\ pc = "blocks"
  /\ ERRORS = <<>> /\ status = "running"
  /\ stackDisk = SemStacks(AbsentStack, AbsentStack)
  /\ skillDisk = AllSkills(ValidSkill)
  /\ existing = {VerifyRef, FailureRef}
  /\ NoCollaborators
  /\ fixtures = Absent /\ texts = NoTexts
  /\ stack_files = <<>> /\ skill_files = <<>>
  /\ stack_data = <<>> /\ skill_data = <<>>
  /\ targets = NoTargets /\ has_payment = "unset" /\ opened = {}
  /\ ideaDoc = [kind |-> "absent"] /\ warnings = "unset" /\ printed = <<>>
  /\ bodies = NoBodies /\ NotLoaded /\ NoEvents
  /\ content \in Contents /\ lang_filter \in Filters
  /\ blocks = <<>> /\ blocks_again = <<>> /\ prose = <<>>

SpecExtract == InitExtract /\ [][NextExtract]_vars

(***************************************************************************)
(* validate-events.py.  EVENTS.yaml is the decoded document: its kind      *)
(* ("absent", "invalid" for text that is not YAML, "null" for an empty     *)
(* file, "scalar" for a number, "map"), the top-level keys it has and the  *)
(* value of each funnel section.  An entry of a section is a mapping with  *)
(* some of the fields, a null, or a string; has holds the fields of a      *)
(* mapping, or the field names that occur in a string.                     *)
(***************************************************************************)
EventsFile(kind, keys, sections) == [kind |-> kind, keys |-> keys, sections |-> sections]
Entry(shape, has) == [shape |-> shape, has |-> has]
Section(null, items) == [null |-> null, items |-> items]

EventKeys == <<"standard_funnel", "custom_events">>
EventSections == <<"standard_funnel", "payment_funnel">>
EventFields == <<"event", "trigger">>

\* an issue of the errors list
Issue(kind, section, index, field) ==
  [kind |-> kind, section |-> section, index |-> index, field |-> field]

\* "event" not in ev and "trigger" not in ev for the entry i of a section:
\* on a string, in is the substring test
EntryIssues(section, i, ev) ==
  SelectSeq([f \in 1..Len(EventFields) |-> Issue("field", section, i, EventFields[f])],
            LAMBDA e : e.field \notin ev.has)

\* the entries from index i on; "event" not in None raises
RECURSIVE EntriesLoop(_, _, _, _)
EntriesLoop(section, items, i, errs) ==
  IF i > Len(items) THEN Res(errs, FALSE)
  ELSE IF items[i].shape = "null" THEN Res(errs, TRUE)
  ELSE EntriesLoop(section, items, i + 1, errs \o EntryIssues(section, i - 1, items[i]))

\* for section in ["standard_funnel", "payment_funnel"]
RECURSIVE SectionsLoop(_, _, _)
SectionsLoop(data, sections, errs) ==
  IF sections = <<>> THEN Res(errs, FALSE)
  ELSE LET s == Head(sections)
       IN  IF s \in data.keys /\ ~data.sections[s].null /\ data.sections[s].items # <<>>
           THEN LET r == EntriesLoop(s, data.sections[s].items, 1, errs)
                IN  IF r.crash THEN r ELSE SectionsLoop(data, Tail(sections), r.errs)
           ELSE SectionsLoop(data, Tail(sections), errs)

\* the if/else that fills the errors list; key not in data raises on a number
EventsCheckRun(data) ==
  IF data.kind = "null" \/ (data.kind = "map" /\ data.keys = {})
  THEN Res(<<Issue("empty", "", 0, "")>>, FALSE)
  ELSE IF data.kind = "scalar" THEN Res(<<>>, TRUE)
  ELSE SectionsLoop(data, EventSections,
                    SelectSeq([k \in 1..Len(EventKeys) |-> Issue("key", EventKeys[k], 0, "")],
                              LAMBDA e : e.section \notin data.keys))

EventsFrame ==
  UNCHANGED <<script, ERRORS, corpusVars, textVars, loadVars, ideaDoc, warnings,
              stack_files, skill_files, stack_data, skill_data, targets,
              has_payment, opened>>

\* data = yaml.safe_load(open("EVENTS.yaml"))
EventsLoad ==
  /\ At("events", "load")
  /\ IF eventsDoc.kind \in {"absent", "invalid"}
     THEN pc' = pc /\ status' = "exception"
     ELSE pc' = "check" /\ status' = status
  /\ EventsFrame /\ UNCHANGED <<errors, printed>>

EventsCheck ==
  /\ At("events", "check")
  /\ LET r == EventsCheckRun(eventsDoc)
     IN  /\ errors' = r.errs
         /\ pc' = IF r.crash THEN pc ELSE "report"
         /\ status' = IF r.crash THEN "exception" ELSE status
  /\ EventsFrame /\ UNCHANGED printed

\* if errors: the heading, one line per issue, sys.exit(1); else the script
\* ends
EventsReport ==
  /\ At("events", "report")
  /\ printed' = IF errors # <<>> THEN <<Issue("heading", "", 0, "")>> \o errors ELSE printed
  /\ status' = IF errors # <<>> THEN "exit1" ELSE "exit0"
  /\ pc' = "done"
  /\ EventsFrame /\ UNCHANGED errors

NextEvents == EventsLoad \/ EventsCheck \/ EventsReport

(***************************************************************************)
(* Corpora of validate-events runs.                                        *)
(***************************************************************************)
EntryShapes ==
  {Entry("map", h) : h \in SUBSET {"event", "trigger"}}
  \cup {Entry("null", {}), Entry("str", {}), Entry("str", {"event", "trigger"})}

StartEvents(doc) ==
  /\ script = "events" /\ pc = "load"
  /\ ERRORS = <<>> /\ status = "running"
  /\ stackDisk = SemStacks(AbsentStack, AbsentStack)
  /\ skillDisk = AllSkills(ValidSkill)
  /\ existing = {VerifyRef, FailureRef}
  /\ NoCollaborators
  /\ fixtures = Absent /\ texts = NoTexts
  /\ stack_files = <<>> /\ skill_files = <<>>
  /\ stack_data = <<>> /\ skill_data = <<>>
  /\ targets = NoTargets /\ has_payment = "unset" /\ opened = {}
  /\ ideaDoc = [kind |-> "absent"] /\ warnings = "unset" /\ printed = <<>>
  /\ NoText /\ bodies = NoBodies /\ NotLoaded
  /\ eventsDoc = doc /\ errors = <<>>

NoSections == [s \in Range(EventSections) |-> Section(TRUE, <<>>)]

\* family 1: documents that are not a mapping
InitEventsKinds ==
  \E k \in {"absent", "invalid", "null", "scalar"} :
     StartEvents(EventsFile(k, {}, NoSections))

\* family 2: the keys and the entries of the funnels vary
InitEventsFunnels ==
  \E keys \in SUBSET {"standard_funnel", "custom_events", "payment_funnel"},
     std \in {Section(TRUE, <<>>)} \cup {Section(FALSE, l) : l \in SeqsUpTo(EntryShapes, MaxEvents)},
     pay \in {Section(TRUE, <<>>)} \cup {Section(FALSE, l) : l \in SeqsUpTo(EntryShapes, 1)} :
     StartEvents(EventsFile("map", keys,
                            [s \in Range(EventSections) |->
                               IF s \notin keys THEN Section(TRUE, <<>>)
                               ELSE IF s = "standard_funnel" THEN std ELSE pay]))

InitEvents == InitEventsKinds \/ InitEventsFunnels

SpecEvents == InitEvents /\ [][NextEvents]_vars

Init == InitFm \/ InitSem

Next == NextFm \/ NextSem

Spec == Init /\ [][Next]_vars


(***************************************************************************)
(* Properties.                                                             *)
(***************************************************************************)
\* the number of recorded diagnostics that satisfy P
NumDiag(P(_)) == Cardinality({i \in 1..Len(ERRORS) : P(ERRORS[i])})

\* the run is a validate-frontmatter run that has completed step p
FmPast(p) ==
  script = "frontmatter" /\ PcIndex(FmOrder, pc) > PcIndex(FmOrder, p)

\* the run is a validate-semantics run that has completed step p
SemPast(p) ==
  script = "semantics" /\ PcIndex(SemOrder, pc) > PcIndex(SemOrder, p)

\* the stack definitions of the corpus, and the skill definitions
LoadedStacks == {p \in StackPairs : IsStackFile(p) /\ ~ContainsTEMPLATE(p)}
PresentSkills == {n \in SkillNames : skillDisk[n].kind # "absent"}

\* the assumes list a stack definition declares
DeclaredAssumes(sf) == AssumesOrEmpty(stackDisk[sf])

\* C1: in Check 2 of validate-frontmatter an assumes entry whose target stack
\* file exists never gets a diagnostic, and once Check 2 has run every entry
\* whose target does not exist has exactly one [2] diagnostic naming that
\* stack and that entry; there is no other [2] diagnostic
C1_AssumesResolution ==
  script = "frontmatter" =>
    /\ \A sf \in StackPairs, dep \in DepNames :
         LET n == NumDiag(LAMBDA d : d = Diag(2, sf, dep))
             entries == IF sf \in LoadedStacks THEN Count(DeclaredAssumes(sf), dep) ELSE 0
         IN  /\ IsStackFile(dep) => n = 0
             /\ n <= entries
             /\ FmPast("check2") /\ ~IsStackFile(dep) => n = entries
    /\ \A i \in 1..Len(ERRORS) :
         ERRORS[i].rule = 2 => ERRORS[i].file \in LoadedStacks /\ ERRORS[i].arg \in DepNames

\* C1 witness: Check 2 has run on a stack with one resolved and one
\* unresolved entry, and only the latter has its diagnostic
C1_Witness ==
  /\ FmPast("check2")
  /\ \E sf \in LoadedStacks, d1 \in DepNames, d2 \in DepNames :
       /\ DeclaredAssumes(sf) = <<d1, d2>>
       /\ IsStackFile(d1) /\ ~IsStackFile(d2)
       /\ NumDiag(LAMBDA d : d.rule = 2) = 1
       /\ NumDiag(LAMBDA d : d = Diag(2, sf, d2)) = 1

MandatoryBasenames == {"verify.md", "failure-patterns.md"}

IsCodeWriting(sk) ==
  skillDisk[sk].kind = "map" /\ SkillType(skillDisk[sk]) = "code-writing"

\* a references entry of the skill has basename b
NamesBasename(sk, b) ==
  LET refs == References(skillDisk[sk]).val
  IN  \E i \in 1..Len(refs) : Last(PathParts[refs[i]]) = b

\* C2: once Check 5 has run, a code-writing skill has exactly one [5]
\* diagnostic for each mandatory basename that no references entry has, naming
\* that basename, and none for a basename some entry has; a skill of another
\* type never has a [5] diagnostic
C2_CodeWritingReferences ==
  script = "frontmatter" =>
    /\ \A sk \in SkillNames, b \in MandatoryBasenames :
         LET n == NumDiag(LAMBDA d : d = Diag(5, sk, b))
         IN  /\ n <= 1
             /\ ~IsCodeWriting(sk) => n = 0
             /\ FmPast("check5") /\ IsCodeWriting(sk) =>
                  n = IF NamesBasename(sk, b) THEN 0 ELSE 1
    /\ \A i \in 1..Len(ERRORS) :
         ERRORS[i].rule = 5 => ERRORS[i].arg \in MandatoryBasenames

\* C2 witness: a code-writing skill that references failure-patterns.md but
\* not verify.md has just the verify.md diagnostic, next to a skill of
\* another type that references neither and has none
C2_Witness ==
  /\ FmPast("check5")
  /\ \E sk \in SkillNames, other \in SkillNames :
       /\ IsCodeWriting(sk)
       /\ NamesBasename(sk, "failure-patterns.md") /\ ~NamesBasename(sk, "verify.md")
       /\ NumDiag(LAMBDA d : d.rule = 5 /\ d.file = sk) = 1
       /\ NumDiag(LAMBDA d : d = Diag(5, sk, "verify.md")) = 1
       /\ skillDisk[other].kind = "map" /\ SkillType(skillDisk[other]) = "analysis-only"
       /\ References(skillDisk[other]).val = <<>>


\* s is a permutation of the set S
PermutationOf(s, S) ==
  \A x \in Range(s) \cup S : Count(s, x) = IF x \in S THEN 1 ELSE 0

\* the collaborator documents that exist agree with the skill definitions
CollaboratorsAgree ==
  /\ IF runSkill.present /\ runSkill.hasLine
     THEN PermutationOf(runSkill.names,
                        {n \in PresentSkills : skillDisk[n].type = "analysis-only"})
     ELSE \A n \in PresentSkills : skillDisk[n].type # "analysis-only"
  /\ makefile.present => makefile.skills = PresentSkills
  /\ claudeMd.present => claudeMd.match /\ PermutationOf(claudeMd.items, PresentSkills)

\* a stack header with every key but those of lacking, whose edges resolve
\* and whose placeholders are covered
StackValidBut(h, lacking) ==
  /\ h.kind = "map" /\ h.missing = lacking
  /\ ~h.assumes.null /\ \A d \in Range(h.assumes.val) : IsStackFile(d)
  /\ ~h.ph.null
  /\ ciYml.present => DOMAIN h.ph.val \subseteq ciYml.keys
  /\ gitleaks.present =>
       \A k \in DOMAIN h.ph.val : IsURL(h.ph.val[k].s) \/ Matched(h.ph.val[k].s)

\* a skill header with every key, the mandatory references, and exactly
\* bad references entries that do not exist
SkillValidBut(h, bad) ==
  /\ h.kind = "map" /\ h.missing = {} /\ ~h.refs.null
  /\ Cardinality({i \in 1..Len(h.refs.val) : h.refs.val[i] \notin existing}) = bad
  /\ h.type = "code-writing" =>
       \A b \in MandatoryBasenames :
          \E i \in 1..Len(h.refs.val) : Last(PathParts[h.refs.val[i]]) = b

\* exactly one stack definition lacks exactly env, exactly one skill
\* definition has exactly one references entry that does not exist, and
\* every other document is valid
TwoDefectCorpus(st, sk) ==
  /\ st \in LoadedStacks /\ sk \in PresentSkills
  /\ StackValidBut(stackDisk[st], {"env"})
  /\ \A o \in LoadedStacks \ {st} : StackValidBut(stackDisk[o], {})
  /\ SkillValidBut(skillDisk[sk], 1)
  /\ \A o \in PresentSkills \ {sk} : SkillValidBut(skillDisk[o], 0)
  /\ CollaboratorsAgree

\* one valid stack definition, one valid skill definition, collaborators
\* that agree
MinimalCorpus ==
  /\ Cardinality(LoadedStacks) = 1 /\ Cardinality(PresentSkills) = 1
  /\ \A o \in LoadedStacks : StackValidBut(stackDisk[o], {})
  /\ \A o \in PresentSkills : SkillValidBut(skillDisk[o], 0)
  /\ CollaboratorsAgree

\* C3: a validate-frontmatter run over a corpus whose only defects are one
\* stack definition without the env key and one skill definition with one
\* references entry that does not exist never raises and ends with exactly two
\* diagnostics (one [1] for env, one [4] for the entry) and exit status 1;
\* a run over a minimal consistent corpus never records a diagnostic and
\* ends with exit status 0
C3_EndToEnd ==
  script = "frontmatter" =>
    /\ \A st \in StackPairs, sk \in SkillNames :
         TwoDefectCorpus(st, sk) =>
           /\ status # "exception"
           /\ Len(ERRORS) <= 2
           /\ pc = "done" =>
                /\ status = "exit1"
                /\ Len(ERRORS) = 2
                /\ ERRORS[1] = Diag(1, st, "env")
                /\ ERRORS[2].rule = 4 /\ ERRORS[2].file = sk
                /\ ERRORS[2].arg \notin existing
    /\ MinimalCorpus =>
         /\ status # "exception"
         /\ ERRORS = <<>>
         /\ pc = "done" => status = "exit0"

\* C3 witness: the run over a two-defect corpus has ended
C3_Witness ==
  /\ script = "frontmatter" /\ pc = "done"
  /\ \E st \in StackPairs, sk \in SkillNames : TwoDefectCorpus(st, sk)
  /\ Len(ERRORS) = 2 /\ status = "exit1"

\* C4: once Check 8 has run on a CLAUDE.md whose Rule 0 list is found, there
\* is exactly one [8] diagnostic, naming the mismatch, when the listed names
\* and the skill file names differ as sets, and none when the list is a
\* permutation of the skill file names; without CLAUDE.md there is none
C4_PolicySkillList ==
  script = "frontmatter" =>
    LET n == NumDiag(LAMBDA d : d.rule = 8)
    IN  /\ n <= 1
        /\ ~claudeMd.present => n = 0
        /\ FmPast("check8") /\ claudeMd.present /\ claudeMd.match =>
             /\ Range(claudeMd.items) # PresentSkills =>
                  n = 1 /\ NumDiag(LAMBDA d : d = Diag(8, "CLAUDE.md", "mismatch")) = 1
             /\ PermutationOf(claudeMd.items, PresentSkills) => n = 0

\* C4 witness: CLAUDE.md lists bootstrap and change, the corpus has
\* bootstrap, change and iterate, and Check 8 has recorded its diagnostic
C4_Witness ==
  /\ FmPast("check8") /\ claudeMd.present /\ claudeMd.match
  /\ claudeMd.items = <<"bootstrap", "change">>
  /\ PresentSkills = {"bootstrap", "change", "iterate"}
  /\ NumDiag(LAMBDA d : d.rule = 8) = 1

\* C5: a run of either validator that has gone through its Summary step has
\* exit status 1 if and only if the diagnostic list is non-empty and exit
\* status 0 if and only if it is empty, and only the Summary step exits
C5_ExitStatus ==
  /\ pc = "done" =>
       /\ status \in {"exit0", "exit1"}
       /\ status = "exit1" <=> ERRORS # <<>>
       /\ status = "exit0" <=> ERRORS = <<>>
  /\ status \in {"exit0", "exit1"} => pc = "done"

\* C5 witness: a validate-semantics run that recorded a single diagnostic
\* has exited with status 1
C5_Witness ==
  script = "semantics" /\ pc = "done" /\ Len(ERRORS) = 1 /\ status = "exit1"

\* the number of diagnostics of the structural rule about one document
StructuralDiags(rule, sf) == NumDiag(LAMBDA d : d.rule = rule /\ d.file = sf)

LackedKeys(h, keys) ==
  IF h.kind = "map" THEN Cardinality(h.missing \cap Range(keys)) ELSE Len(keys)

UndecodableHeader ==
  \/ \E sf \in LoadedStacks :
       \/ stackDisk[sf].kind \in {"invalid", "nonmap"}
       \/ stackDisk[sf].kind = "map" /\ HasKey(stackDisk[sf], "assumes")
          /\ stackDisk[sf].assumes.null
  \/ \E sk \in PresentSkills :
       \/ skillDisk[sk].kind \in {"invalid", "nonmap"}
       \/ skillDisk[sk].kind = "map" /\ HasKey(skillDisk[sk], "references")
          /\ skillDisk[sk].refs.null

\* C7 as stated: a validate-frontmatter run over a corpus with such a
\* document is never aborted by an exception
C7_Original ==
  script = "frontmatter" /\ UndecodableHeader => status # "exception"


\* the fixture is a mapping whose idea and assertions are mappings, so that
\* Check 3 assigns has_payment when it processes it
AssignsHasPayment(fx) ==
  fx.kind = "map" /\ IdeaOf(fx).shape = "map" /\ AssertionsOf(fx).shape = "map"

\* C8: a fixture file that is not YAML never has a diagnostic other than the
\* "invalid YAML" one of Check 3, has exactly that one once Check 3 has run,
\* and is not among the fixtures the coverage checks load; the loop of
\* Check 3 goes on to the fixtures after it
C8_UnparsableFixture ==
  script = "semantics" /\ fixtures.present =>
    \A i \in 1..Len(fixtures.files) :
      LET ff == FixtureNames[i]
          fx == fixtures.files[i]
          loaded == FixtureStacks(1, <<>>).stacks
      IN  /\ fx.kind = "invalid" =>
                /\ NumDiag(LAMBDA d : d.file = ff) <= 1
                /\ \A k \in 1..Len(ERRORS) :
                     ERRORS[k].file = ff => ERRORS[k] = Diag(3, ff, "invalid YAML")
                /\ SemPast("check3") => NumDiag(LAMBDA d : d.file = ff) = 1
                /\ \A k \in 1..Len(loaded) : loaded[k].ff # ff
          /\ SemPast("check3") /\ fx.kind = "nonmap" =>
                NumDiag(LAMBDA d : d = Diag(3, ff, "not a mapping")) = 1
          /\ SemPast("check3") /\ AssignsHasPayment(fx) => has_payment # "unset"

\* C8 witness: the run has ended over a fixture directory whose first file is
\* not YAML and has its one diagnostic, and whose second file was processed
C8_Witness ==
  /\ script = "semantics" /\ pc = "done" /\ fixtures.present
  /\ Len(fixtures.files) = 2
  /\ fixtures.files[1].kind = "invalid"
  /\ AssignsHasPayment(fixtures.files[2])
  /\ NumDiag(LAMBDA d : d.file = FixtureNames[1]) = 1
  /\ has_payment # "unset"

\* the fixture parses as YAML and has an unexpected shape: it is not a
\* mapping, or its idea, idea.stack, assertions or events is not a mapping,
\* or assertions.skippable_events is null
BadShape(fx) ==
  \/ fx.kind = "nonmap"
  \/ /\ fx.kind = "map"
     /\ \/ IdeaOf(fx).shape # "map"
        \/ IdeaOf(fx).stack.shape # "map"
        \/ AssertionsOf(fx).shape # "map"
        \/ EventsOf(fx).shape # "map"
        \/ AssertionsOf(fx).skippable_events.null

\* C9 as stated: a validate-semantics run over fixtures of which one has an
\* unexpected shape is never aborted by an exception
C9_Original ==
  (/\ script = "semantics" /\ fixtures.present
   /\ \E i \in 1..Len(fixtures.files) : BadShape(fixtures.files[i]))
  => status # "exception"

\* the rules of each validator that consult a collaborator document
RulesOf(doc) ==
  CASE doc = "Makefile" ->
         IF script = "frontmatter" THEN {7} ELSE {2, 6, 10, 15, 20}
    [] doc = "ci.yml" -> IF script = "frontmatter" THEN {9} ELSE {23}
    [] doc = ".gitleaks.toml" -> IF script = "frontmatter" THEN {10} ELSE {}
    [] doc = "tests/fixtures" -> IF script = "frontmatter" THEN {} ELSE {3, 7, 13, 19}

IsPresent(doc) ==
  CASE doc = "Makefile" -> makefile.present
    [] doc = "ci.yml" -> ciYml.present
    [] doc = ".gitleaks.toml" -> gitleaks.present
    [] doc = "tests/fixtures" -> fixtures.present

\* C10: while the Makefile, ci.yml, .gitleaks.toml or tests/fixtures is
\* absent, no rule that consults it has recorded a diagnostic and none has
\* opened it; Checks 10 and 15 of validate-semantics never read the target
\* table before Check 2 has built it, so neither raises, and they record a
\* diagnostic only when it is built
C10_AbsentCollaborators ==
  /\ \A doc \in {"Makefile", "ci.yml", ".gitleaks.toml", "tests/fixtures"} :
       ~IsPresent(doc) =>
         /\ doc \notin opened
         /\ NumDiag(LAMBDA d : d.rule \in RulesOf(doc)) = 0
         /\ NumDiag(LAMBDA d : d.file = doc) = 0
  /\ script = "semantics" =>
       /\ status = "exception" => pc \notin {"check10", "check15"}
       /\ NumDiag(LAMBDA d : d.rule \in {10, 15}) > 0 => targets.built
       /\ SemPast("check2") => (targets.built <=> makefile.present)

\* C10 witness: a validate-semantics run without Makefile, ci.yml and
\* fixture directory has gone through every check and opened none of them
C10_Witness ==
  /\ script = "semantics" /\ pc = "done"
  /\ ~makefile.present /\ ~ciYml.present /\ ~fixtures.present
  /\ opened = {} /\ ~targets.built
  /\ status \in {"exit0", "exit1"}

\* C11 as stated: while scripts/run-skill.sh is absent, Check 6 of
\* validate-frontmatter records no diagnostic, whatever the skill
\* definitions are
C11_Original ==
  (FmPast("check6") /\ ~runSkill.present) => NumDiag(LAMBDA d : d.rule = 6) = 0

\* the string forms of the ci_placeholders values that the stack definitions
\* with a mapping header declare
DeclaredPlaceholderStrings ==
  {PhStrOrder[i] : i \in 1..Len(PhStrOrder)} \cap
  UNION {{stackDisk[p].ph.val[k].s : k \in DOMAIN stackDisk[p].ph.val} :
           p \in {q \in LoadedStacks : /\ stackDisk[q].kind = "map"
                                       /\ "ci_placeholders" \notin stackDisk[q].missing}}

\* some pattern of the allowlist compiles and matches v
Covered(v) ==
  \E p \in Range(gitleaks.patterns) : p.valid /\ v \in p.matches

URLShaped == {"https://example.com"}

\* C12: once Check 10 of validate-frontmatter has run with the allowlist
\* present, the [10] diagnostics are exactly one per declared placeholder
\* string that is not URL-shaped and that no allowlist pattern matches
C12_AllowlistCoverage ==
  (FmPast("check10") /\ gitleaks.present) =>
     /\ \A v \in Range(PhStrOrder) :
          NumDiag(LAMBDA d : d.rule = 10 /\ d.arg = v) =
            IF v \in DeclaredPlaceholderStrings /\ v \notin URLShaped /\ ~Covered(v)
            THEN 1 ELSE 0
     /\ NumDiag(LAMBDA d : d.rule = 10) =
          NumDiag(LAMBDA d : d.rule = 10 /\ d.arg \in Range(PhStrOrder))

\* C12 witness: two stacks declare the same uncovered value, one of them a
\* URL-shaped value too, and Check 10 has recorded the uncovered value once
\* and nothing else
C12_Witness ==
  /\ FmPast("check10") /\ gitleaks.present
  /\ \E p, q \in LoadedStacks :
       /\ p # q
       /\ \E k \in DOMAIN stackDisk[p].ph.val : stackDisk[p].ph.val[k].s = "phc_placeholder"
       /\ \E k \in DOMAIN stackDisk[q].ph.val : stackDisk[q].ph.val[k].s = "phc_placeholder"
       /\ \E k \in DOMAIN stackDisk[q].ph.val : stackDisk[q].ph.val[k].s \in URLShaped
  /\ ~Covered("phc_placeholder")
  /\ NumDiag(LAMBDA d : d.rule = 10 /\ d.arg = "phc_placeholder") = 1
  /\ NumDiag(LAMBDA d : d.rule = 10) = 1

\* the whole name is one lowercase letter followed by characters from a-z,
\* 0-9 and hyphen
WholeNameIsSlug(n) ==
  /\ n # <<>>
  /\ Head(n) \in LowerChars
  /\ \A i \in 2..Len(n) : n[i] \in LowerChars \cup {"1", "-"}

\* the fixtures Check 3 of validate-semantics checks the idea of
IdeaFixtures ==
  {i \in 1..Len(fixtures.files) :
     fixtures.files[i].kind = "map" /\ IdeaOf(fixtures.files[i]).shape = "map"}

\* C13 as stated: Check 3 of validate-semantics accepts the name of a
\* fixture's idea (records no name diagnostic for it) exactly when the whole
\* name is a slug, which is exactly when the pattern of validate-idea
\* accepts it
C13_Original ==
  (SemPast("check3") /\ fixtures.present) =>
     \A i \in IdeaFixtures :
        LET name == IdeaOf(fixtures.files[i]).name
            accepted ==
              NumDiag(LAMBDA d : d.rule = 3 /\ d.file = FixtureNames[i]
                                 /\ d.arg = "idea.name") = 0
        IN  /\ accepted <=> WholeNameIsSlug(name)
            /\ accepted <=> FullMatchSlug(name)

\* fixture i asserts payment: its assertions are a mapping whose
\* payment_events_required is true
AssertsPayment(i) ==
  LET a == AssertionsOf(fixtures.files[i])
  IN  a.shape = "map" /\ a.payment_events_required

\* the idea.stack of fixture i has a payment entry
HasPaymentEntry(i) ==
  LET stack == IdeaOf(fixtures.files[i]).stack
  IN  stack.shape = "map" /\ "payment" \in DOMAIN stack.map

PaymentDiags(i) ==
  NumDiag(LAMBDA d : d.rule = 3 /\ d.file = FixtureNames[i]
                     /\ d.arg = "payment_events_required")

\* C14: once Check 3 of validate-semantics has run, every fixture with a
\* mapping idea that asserts payment and has no payment entry in idea.stack
\* has exactly one 'payment asserted without a payment stack entry'
\* diagnostic, and no other fixture has one
C14_PaymentAssertion ==
  (SemPast("check3") /\ fixtures.present) =>
     \A i \in 1..Len(fixtures.files) :
        PaymentDiags(i) =
          IF i \in IdeaFixtures /\ AssertsPayment(i) /\ ~HasPaymentEntry(i)
          THEN 1 ELSE 0

\* C14 witness: Check 3 has run over a fixture that asserts payment with an
\* empty idea.stack, and got the diagnostic, and one that asserts payment with
\* a payment entry, and got none
C14_Witness ==
  /\ SemPast("check3") /\ fixtures.present
  /\ \E i, j \in IdeaFixtures :
       /\ AssertsPayment(i) /\ DOMAIN IdeaOf(fixtures.files[i]).stack.map = {}
       /\ PaymentDiags(i) = 1
       /\ AssertsPayment(j) /\ HasPaymentEntry(j)
       /\ PaymentDiags(j) = 0

\* idea.pages of fixture i contains an entry named landing (a string or a
\* mapping written for pages contains no entry)
ContainsLanding(i) ==
  LET pages == IdeaOf(fixtures.files[i]).pages
  IN  pages.shape = "list" /\ "landing" \in Range(pages.names)

LandingDiags(i) ==
  NumDiag(LAMBDA d : d.rule = 3 /\ d.file = FixtureNames[i] /\ d.arg = "landing")

\* C15 as stated: once Check 3 of validate-semantics has run, a fixture whose
\* idea is a mapping has the 'idea.pages must include a landing entry'
\* diagnostic exactly when idea.pages contains no entry named landing,
\* whether idea.pages is a list or not
C15_Original ==
  (SemPast("check3") /\ fixtures.present) =>
     \A i \in IdeaFixtures : (LandingDiags(i) > 0) <=> ~ContainsLanding(i)

\* fixture i loads and its idea.stack maps the category of pair to its value
FixtureCovers(i, pair) ==
  LET fx == fixtures.files[i]
  IN  /\ fx.kind = "map"
      /\ IdeaOf(fx).shape = "map"
      /\ IdeaOf(fx).stack.shape = "map"
      /\ \E c \in DOMAIN IdeaOf(fx).stack.map :
            <<c, IdeaOf(fx).stack.map[c]>> = PairParts[pair]

CoverageDiags(pair) ==
  NumDiag(LAMBDA d : d.rule = 7 /\ d.file = pair /\ d.arg = "no fixture coverage")

\* C16: once Check 7 of validate-semantics has run with the fixture
\* directory present, every loaded stack definition that no loadable fixture
\* covers has exactly one 'no fixture coverage' diagnostic, and no other
\* stack definition has one
C16_StackCoverage ==
  (SemPast("check7") /\ fixtures.present) =>
     \A pair \in StackPairs :
        CoverageDiags(pair) =
          IF /\ pair \in LoadedStacks
             /\ ~\E i \in 1..Len(fixtures.files) : FixtureCovers(i, pair)
          THEN 1 ELSE 0

\* C16 witness: Check 7 has run over a corpus with two stack definitions, one
\* that a fixture covers and one whose category a fixture maps to another
\* value, and has recorded the second one only
C16_Witness ==
  /\ SemPast("check7") /\ fixtures.present
  /\ \E p, q \in LoadedStacks :
       /\ \E i \in 1..Len(fixtures.files) : FixtureCovers(i, p)
       /\ CoverageDiags(p) = 0
       /\ \E i \in 1..Len(fixtures.files) :
            /\ fixtures.files[i].kind = "map"
            /\ PairParts[q][1] \in DOMAIN IdeaOf(fixtures.files[i]).stack.map
       /\ CoverageDiags(q) = 1

\* the stack mappings of the fixtures that load and use category
UsersOf(category) ==
  {IdeaOf(fixtures.files[i]).stack.map :
     i \in {j \in 1..Len(fixtures.files) :
              /\ fixtures.files[j].kind = "map"
              /\ IdeaOf(fixtures.files[j]).shape = "map"
              /\ IdeaOf(fixtures.files[j]).stack.shape = "map"
              /\ category \in DOMAIN IdeaOf(fixtures.files[j]).stack.map}}

BranchDiags(sf, br) ==
  NumDiag(LAMBDA d : d.rule = 13 /\ d.file = sf /\ d.arg = br[1])

\* C17 as stated: once Check 13 of validate-semantics has run, a 'when
\* stack.X is NOT Y' branch of a stack file has no [13] diagnostic when no
\* fixture uses the category of the file, and otherwise has one exactly
\* when every fixture that uses the category has X equal to Y
C17_Original ==
  (SemPast("check13") /\ fixtures.present) =>
     \A sf \in Range(stack_files) :
        \A br \in Range(NotBranches(sf)) :
           (BranchDiags(sf, br) > 0) <=>
             /\ UsersOf(Category(sf)) # {}
             /\ \A fs \in UsersOf(Category(sf)) :
                   br[1] \in DOMAIN fs /\ fs[br[1]] = br[2]

\* C17 amended: once Check 13 of validate-semantics has run, a 'when stack.X
\* is NOT Y' branch of a stack file has a [13] diagnostic exactly when no
\* fixture that uses the category of the file has X absent or different from
\* Y; fixtures that do not use the category are not looked at, and the
\* branch has the diagnostic when no fixture uses the category
C17_Amended ==
  (SemPast("check13") /\ fixtures.present) =>
     \A sf \in Range(stack_files) :
        \A br \in Range(NotBranches(sf)) :
           BranchDiags(sf, br) =
             IF \E fs \in UsersOf(Category(sf)) :
                   br[1] \notin DOMAIN fs \/ fs[br[1]] # br[2]
             THEN 0 ELSE 1

\* C17 witness: Check 13 has run; a branch of a stack file whose category no
\* fixture uses has the diagnostic, and so has a branch that only a fixture
\* outside the category of its file exercises
C17_Witness ==
  /\ SemPast("check13") /\ fixtures.present
  /\ \E sf \in Range(stack_files) :
       \E br \in Range(NotBranches(sf)) :
          UsersOf(Category(sf)) = {} /\ BranchDiags(sf, br) = 1
  /\ \E sf \in Range(stack_files) :
       \E br \in Range(NotBranches(sf)) :
          /\ UsersOf(Category(sf)) # {}
          /\ BranchDiags(sf, br) = 1
          /\ \E i \in IdeaFixtures :
               /\ IdeaOf(fixtures.files[i]).stack.shape = "map"
               /\ br[1] \notin DOMAIN IdeaOf(fixtures.files[i]).stack.map

\* the idea of idea/idea.yaml has a hard error: a malformed name, no page
\* named landing, or a required field that is missing or empty
HardFailure ==
  \/ ~WholeNameIsSlug(ideaDoc.idea.name)
  \/ ~(ideaDoc.idea.pages.shape = "list" /\ "landing" \in Range(ideaDoc.idea.pages.names))
  \/ \E f \in Range(REQUIRED_IDEA_FIELDS) : FieldFalsy(ideaDoc.idea, f)

WarningPrinted == \E i \in 1..Len(printed) : printed[i].kind = "Warning"

\* C18 as stated: a validate-idea run that ends with sys.exit ends with
\* status 1 exactly when the idea has a hard error, otherwise with status 2
\* exactly when it printed a warning, otherwise with status 0
C18_Original ==
  (script = "idea" /\ pc = "done") =>
     status = IF HardFailure THEN "exit1"
              ELSE IF WarningPrinted THEN "exit2" ELSE "exit0"

\* the 1-based number of the line that position p of the text is on
LineOf(t, p) == 1 + Cardinality({i \in 1..(p - 1) : t[i] = "\n"})

\* b is the block that opens with the fence at position p and closes with
\* the fence at position e of the text
IsBlockAt(t, b, p, e) ==
  /\ p < e /\ t[p] = "F" /\ t[e] = "F"
  /\ LineStart(t, p) /\ LineStart(t, e)
  /\ b.start_line = LineOf(t, p)
  /\ b.lang = SubSeq(t, p + 1, p + Len(b.lang))
  /\ Len(b.code) < e - p
  /\ b.code = SubSeq(t, e - Len(b.code), e - 1)

\* the matches of the fence pattern of extract_code_blocks in the text
BlockMatches == FindIter(content, 1, TRUE)

WithoutBlocks(t) ==
  LET ms == FindIter(t, 1, TRUE)
      kept == {p \in 1..Len(t) :
                 \A k \in 1..Len(ms) : p < ms[k].start \/ p > ms[k].end}
  IN  SelectSeq([p \in 1..Len(t) |-> <<p, t[p]>>], LAMBDA x : x[1] \in kept)

\* C20 as stated: extract_prose returns the text in document order without
\* exactly the regions of the fenced blocks that extract_code_blocks finds
C20_Original ==
  (script = "extract" /\ pc = "done") =>
     prose = [i \in 1..Len(WithoutBlocks(content)) |-> WithoutBlocks(content)[i][2]]

\* C21 as stated: in a validate-semantics run, once the corpus has been
\* collected no rule opens a file
C21_Original == SemPast("collect") => opened = {}

\* the diagnostics of rule k, in the order of the list
DiagsOf(k) == SelectSeq(ERRORS, LAMBDA d : d.rule = k)

\* C22 as stated: the diagnostics of a run do not depend on the order in
\* which a loop goes through an unordered set; whatever order Check 12 takes
\* through SPEC_REFERENCE_FILES, its diagnostics are the ones in the list
C22_Original ==
  SemPast("check12") =>
     \A ord \in Orders(SPEC_REFERENCE_FILES) :
        DiagsOf(12) = Check12Loop(skill_contents, ord, <<>>).errs

\* C23 as stated: once Check 2 of validate-frontmatter has run, an assumes
\* entry of a loaded stack definition has no [2] diagnostic if and only if
\* its target is one of the loaded stack definitions
C23_Original ==
  FmPast("check2") =>
     \A sf \in LoadedStacks : \A dep \in Range(DeclaredAssumes(sf)) :
        (dep \in LoadedStacks) <=> NumDiag(LAMBDA d : d = Diag(2, sf, dep)) = 0

\* the (section, index, field) triples of EVENTS.yaml whose entry has no such
\* field, and the required keys it lacks
LackingFields ==
  {t \in Range(EventSections) \X (0..MaxEvents) \X Range(EventFields) :
     /\ t[1] \in eventsDoc.keys /\ ~eventsDoc.sections[t[1]].null
     /\ t[2] < Len(eventsDoc.sections[t[1]].items)
     /\ LET ev == eventsDoc.sections[t[1]].items[t[2] + 1]
        IN  ev.shape # "map" \/ t[3] \notin ev.has}
MissingEventKeys == {k \in Range(EventKeys) : k \notin eventsDoc.keys}
EmptyEventsDoc == eventsDoc.kind = "null" \/ eventsDoc.keys = {}

\* the number of printed lines that satisfy P
NumPrinted(P(_)) == Cardinality({i \in 1..Len(printed) : P(printed[i])})

\* C24 as stated: a validate-events run on a document that loads as nothing
\* or as a mapping ends with status 1 (by sys.exit(1) or by an uncaught
\* exception) if and only if the document is empty, lacks a required key or
\* has a funnel entry without event or trigger; it then prints one issue per
\* missing key and per (section, index, field), and otherwise ends with
\* status 0 and no output
C24_Original ==
  script = "events" /\ status # "running" /\ eventsDoc.kind \in {"null", "map"} =>
     LET bad == EmptyEventsDoc \/ MissingEventKeys # {} \/ LackingFields # {}
     IN  /\ status \in {"exit1", "exception"} <=> bad
         /\ ~bad => status = "exit0" /\ printed = <<>>
         /\ bad /\ ~EmptyEventsDoc =>
              /\ \A k \in MissingEventKeys :
                    NumPrinted(LAMBDA e : e = Issue("key", k, 0, "")) = 1
              /\ \A t \in LackingFields :
                    NumPrinted(LAMBDA e : e = Issue("field", t[1], t[2], t[3])) = 1
              /\ Len(printed) = 1 + Cardinality(MissingEventKeys) + Cardinality(LackingFields)

FunnelDiags(i) ==
  NumDiag(LAMBDA d : d.rule = 3 /\ d.file = FixtureNames[i] /\ d.arg = "payment_funnel")

\* C25 as stated: once Check 3 of validate-semantics has run, a fixture with
\* a mapping idea and a mapping events has the payment_funnel diagnostic if
\* and only if its own events.payment_funnel is non-empty and its own
\* idea.stack has no payment entry, whatever the fixtures before it hold and
\* whether or not its assertions is a mapping
C25_Original ==
  (SemPast("check3") /\ fixtures.present) =>
     \A i \in IdeaFixtures :
        EventsOf(fixtures.files[i]).shape = "map" =>
           FunnelDiags(i) =
             IF EventsOf(fixtures.files[i]).payment_funnel /\ ~HasPaymentEntry(i)
             THEN 1 ELSE 0

\* the text of a skill file as the run loaded it
LoadedText(sf) == bodies.skill[sf].text

\* C26 as stated, for Check 12: once the check has run, a reference file
\* that the prose of a skill file with a mapping header names outside an
\* example, and that is not itself an entry of the reads list, has a [12]
\* diagnostic; an entry that only contains the name, or is contained in it,
\* does not declare it
C26_Original ==
  SemPast("check12") =>
     \A sf \in Range(skill_files), ref \in SPEC_REFERENCE_FILES :
        (/\ skillDisk[sf].kind = "map"
         /\ Unexcused(extract_prose(LoadedText(sf)), ref) # {}
         /\ ref \notin ReadsOf(sf))
        => NumDiag(LAMBDA d : d.rule = 12 /\ d.file = sf /\ d.arg = ref) = 1

\* the prose of a skill file, as Check 5 takes it from the loaded text
SkillProse(sf) == extract_prose(LoadedText(sf))

\* the number of characters between the start of position a and the start of
\* position i of the text p
Distance(p, a, i) == CharsBefore(p, i) - CharsBefore(p, a)

\* position i of the prose p is a reference to the stack file of category c
\* and an "if" with stack.c after it starts within the 150 characters before
\* the reference
GuardedRef(p, i, c) ==
  \E a \in 1..(i - 1) : \E b \in (a + 1)..(i - 1) :
     /\ p[a] = "if " /\ Distance(p, a, i) <= 150
     /\ p[b] = (IF c = "auth" THEN "stack.auth" ELSE "stack.payment")

RefsTo(p, c) == {i \in 1..Len(p) : p[i] \in StackFileRefs /\ RefCategory(p[i]) = c}

\* C27: once Check 5 of validate-semantics has run, the [5] diagnostics of a
\* skill file for an optional category are as many as the references to the
\* stack file of that category in its prose that have no guard for the
\* category within the 150 characters of prose before them; a reference to
\* a category that is not optional never has one
C27_GuardWindow ==
  SemPast("check5") =>
     \A sf \in Range(skill_files), c \in {"auth", "payment", "analytics"} :
        NumDiag(LAMBDA d : d.rule = 5 /\ d.file = sf /\ d.arg = c) =
          IF c \in OPTIONAL_CATEGORIES
          THEN Cardinality({i \in RefsTo(SkillProse(sf), c) : ~GuardedRef(SkillProse(sf), i, c)})
          ELSE 0

\* C27 witness: Check 5 has run over a skill file whose only guard for auth
\* starts 151 characters before a reference to the auth stack file, and the
\* reference got its diagnostic
C27_Witness ==
  /\ SemPast("check5")
  /\ \E sf \in Range(skill_files) :
       LET p == SkillProse(sf)
       IN  /\ \E i \in RefsTo(p, "auth") : \E a \in 1..(i - 1) :
                /\ p[a] = "if " /\ p[a + 1] = "stack.auth" /\ Distance(p, a, i) = 151
                /\ \A b \in 1..(i - 1) : p[b] = "if " => b = a
           /\ NumDiag(LAMBDA d : d.rule = 5 /\ d.file = sf /\ d.arg = "auth") = 1

\* the optional categories that the testing stack definitions assume
OptionalTestingAssumes == TestingAssumesCategories \cap OPTIONAL_CATEGORIES

\* the sets of optional testing assumes that the fixtures using testing have
\* in their idea.stack
CoveredCombinations ==
  {DOMAIN IdeaOf(fixtures.files[i]).stack.map \cap OptionalTestingAssumes :
     i \in {j \in IdeaFixtures :
              /\ IdeaOf(fixtures.files[j]).stack.shape = "map"
              /\ "testing" \in DOMAIN IdeaOf(fixtures.files[j]).stack.map}}

\* C28 as stated: once Check 19 of validate-semantics has run over a corpus
\* whose testing stack assumes at least two optional categories and that
\* has a fixture using testing, there is a [19] diagnostic unless every
\* proper non-empty subset of those categories is the combination of some
\* fixture that uses testing
C28_Original ==
  (/\ SemPast("check19") /\ fixtures.present
   /\ Cardinality(OptionalTestingAssumes) >= 2 /\ CoveredCombinations # {}) =>
     (NumDiag(LAMBDA d : d.rule = 19) = 0
        <=> \A S \in SUBSET OptionalTestingAssumes :
               (S # {} /\ S # OptionalTestingAssumes) => S \in CoveredCombinations)

\* the blocks of a stack file that Check 11 looks at
ScriptBlocks(sf) == extract_code_blocks(bodies.stack[sf], ScriptLangs)

\* C29 as stated: once Check 11 of validate-semantics has run, a stack file
\* with a header has exactly one [11] diagnostic for each provider that is
\* not its own and not in its assumes and that some ts/tsx/js/jsx block of
\* the file uses, and none for any other provider
C29_Original ==
  SemPast("check11") =>
     \A sf \in Range(stack_files), id \in Range(ProviderOrder) :
        ~FmFalsy(stackDisk[sf]) =>
           NumDiag(LAMBDA d : d.rule = 11 /\ d.file = sf /\ d.arg = id) =
             IF /\ PROVIDER_IDENTIFIERS[id] # sf
                /\ PROVIDER_IDENTIFIERS[id] \notin Range(AssumesOrEmpty(stackDisk[sf]))
                /\ \E k \in 1..Len(ScriptBlocks(sf)) : UsesIdentifier(ScriptBlocks(sf)[k], id)
             THEN 1 ELSE 0

\* C30 as stated, for Checks 5 and 12 on skill files without fences (their
\* prose is their text): once Check 12 of validate-semantics has run, the
\* line of every [5] and [12] diagnostic is the line of an occurrence that
\* triggers it: a reference without a guard in its window, or a reference
\* file named outside an example
C30_Original ==
  SemPast("check12") =>
     \A k \in 1..Len(ERRORS) :
        LET d == ERRORS[k]
            t == LoadedText(d.file)
        IN  (d.rule \in {5, 12} /\ "F" \notin Range(t)) =>
               \E i \in 1..Len(t) :
                  /\ NewlinesBefore(t, i) + 1 = d.line
                  /\ IF d.rule = 12 THEN i \in Unexcused(t, d.arg)
                     ELSE i \in Range(Unguarded(t)) /\ RefCategory(t[i]) = d.arg

====
